---- MODULE Spec2Model ----
(***************************************************************************)
(* Region / SubRegion geometry of acods_vis (Src/awapRegion.py,            *)
(* Src/awapIO.py) and the windowed densities of                            *)
(* Apps/tdpdfs-From-DataCubes.py.                                          *)
(*                                                                         *)
(* Lengths (latitudes, longitudes, cell sizes) are exact integers counted  *)
(* in units of the roundoff tolerance epsilon = 1.e-6 degree, so           *)
(* epsilon = 1 and a cell of size 4 is 4.e-6 degree wide.  Cell sizes are  *)
(* even, so half a cell is an integer too.  Arithmetic is exact: floating  *)
(* point rounding of linspace and of the +/- dLat/2 offsets is not         *)
(* modelled.                                                               *)
(*                                                                         *)
(* NumPy arrays are functions on 0..n-1 (axes) and on                      *)
(* (0..nrows-1) \X (0..ncols-1) (2-D fields), so that indices are the      *)
(* indices of the source.                                                  *)
(***************************************************************************)
EXTENDS Integers, FiniteSets, Sequences, TLC

VARIABLES parent, sub, regions, report, grid, tdpdf, kld, season, mpi

vars == <<parent, sub, regions, report, grid, tdpdf, kld, season, mpi>>

(***************************************************************************)
(* Bounds and input sets.                                                  *)
(***************************************************************************)
\* Largest grid (nrows * ncols) a header may describe.
MaxCells == 6

\* Sub-region category ids present in the mask files (positive integers,
\* as in awapRegionDefs.StateIDs).
CategoryIDs == {1, 2}

\* Header values: cellsize, xllcorner, yllcorner, nodata_value.
CellSizes == {4}
XllCorners == {0}
YllCorners == {-8}
NoDataValues == {-999}

\* Coordinates a caller-supplied BoundingBox is drawn from.
BoxLats == {-20, 0, 5}
BoxLons == {-20, 8}

\* awapRegion.epsilon, the unit of length of this model.
epsilon == 1

\* Python values: None (the BoundingBox that was not supplied, written as
\* the empty list), the booleans of an attribute that may be missing, and
\* the marker of an attribute that was never assigned.
None == <<>>
True == "True"
False == "False"
Unset == "unset"

(***************************************************************************)
(* NumPy helpers.                                                          *)
(***************************************************************************)
Min(S) == CHOOSE x \in S : \A y \in S : x <= y
Max(S) == CHOOSE x \in S : \A y \in S : x >= y

\* np.linspace(first, last, num): num evenly spaced values; the step is
\* (last - first) / (num - 1), and a single value when num = 1.
linspace(first, last, num) ==
    [i \in 0..(num - 1) |->
        IF num = 1 THEN first
        ELSE first + (i * (last - first)) \div (num - 1)]

\* a[::-1]
reversed(a) ==
    LET n == Cardinality(DOMAIN a)
    IN  [i \in 0..(n - 1) |-> a[n - 1 - i]]

\* a[start:stop] of a 1-D array, for 0 <= start, stop <= len(a); an empty
\* array when stop <= start.
slice(a, start, stop) ==
    [i \in 0..(stop - start - 1) |-> a[start + i]]

\* a[r0:r1, c0:c1] of a 2-D array.
slice2(a, r0, r1, c0, c1) ==
    [rc \in (0..(r1 - r0 - 1)) \X (0..(c1 - c0 - 1)) |->
        a[<<r0 + rc[1], c0 + rc[2]>>]]

(***************************************************************************)
(* awapIO                                                                  *)
(***************************************************************************)
\* Faulty variants of getLats and getLons: the first value is the edge of
\* the first cell instead of its centre.
getLatsFromEdge(HeaderDict, Reverse) ==
    LET lats == linspace(HeaderDict.yllcorner,
                         HeaderDict.yllcorner
                             + (HeaderDict.nrows - 1) * HeaderDict.cellsize,
                         HeaderDict.nrows)
    IN  IF Reverse THEN reversed(lats) ELSE lats

getLonsFromEdge(HeaderDict) ==
    linspace(HeaderDict.xllcorner,
             HeaderDict.xllcorner + (HeaderDict.ncols - 1) * HeaderDict.cellsize,
             HeaderDict.ncols)

getLats(HeaderDict, Reverse) ==
    LET numLats == HeaderDict.nrows
        minLat == HeaderDict.yllcorner
        dLat == HeaderDict.cellsize
        firstLat == minLat + dLat \div 2
        lastLat == firstLat + (numLats - 1) * dLat
        lats == linspace(firstLat, lastLat, numLats)
    IN  IF Reverse THEN reversed(lats) ELSE lats

getLons(HeaderDict) ==
    LET numLons == HeaderDict.ncols
        minLon == HeaderDict.xllcorner
        dLon == HeaderDict.cellsize
        firstLon == minLon + dLon \div 2
        lastLon == firstLon + (numLons - 1) * dLon
    IN  linspace(firstLon, lastLon, numLons)

\* readAWAP_flt: the decoded field, masked where it holds the nodata value.
\* fieldData stands for the contents of the .flt file.
readAWAP_flt(HeaderDict, fieldData) ==
    [data |-> fieldData,
     mask |-> [rc \in DOMAIN fieldData |->
                  fieldData[rc] = HeaderDict.nodata_value]]

\* ma.count: the number of unmasked entries.
count(m) == Cardinality({rc \in DOMAIN m.mask : ~m.mask[rc]})

(***************************************************************************)
(* awapRegion.Region                                                       *)
(***************************************************************************)
\* Region.__init__(HeaderDict): fieldData is the mask file the header
\* points to.  reversedLats is assigned only when the latitudes descend; it
\* is left unset otherwise.
Region(HeaderDict, fieldData) ==
    LET lats == getLats(HeaderDict, TRUE)
        topoMask == readAWAP_flt(HeaderDict, fieldData)
    IN  [subRegionLevel |-> 0,
         numLats |-> HeaderDict.nrows,
         numLons |-> HeaderDict.ncols,
         dLat |-> HeaderDict.cellsize,
         dLon |-> HeaderDict.cellsize,
         minLat |-> HeaderDict.yllcorner,
         minLon |-> HeaderDict.xllcorner,
         missingFlag |-> HeaderDict.nodata_value,
         maxLat |-> HeaderDict.nrows * HeaderDict.cellsize + HeaderDict.yllcorner,
         maxLon |-> HeaderDict.ncols * HeaderDict.cellsize + HeaderDict.xllcorner,
         lats |-> lats,
         lons |-> getLons(HeaderDict),
         reversedLats |->
             IF lats[HeaderDict.nrows - 1] < lats[0] THEN True ELSE Unset,
         topoMask |-> topoMask,
         numUnmaskedPoints |-> count(topoMask),
         hasSubRegionDefs |-> FALSE]

\* readAWAP_LUT: the two-column .csv file (rows <<id, name>>, comment rows
\* already filtered out) as a dictionary name -> id.  A name that occurs
\* twice keeps the id of its last row.
readAWAP_LUT(lutFile) ==
    [n \in {lutFile[i][2] : i \in 1..Len(lutFile)} |->
        lutFile[Max({i \in 1..Len(lutFile) : lutFile[i][2] = n})][1]]

\* Region.__init__(HeaderDict, SetSubRegionTable=True): lines 97-98 add the
\* table and set hasSubRegionDefs.
RegionWithTable(HeaderDict, fieldData, lutFile) ==
    [hasSubRegionDefs |-> TRUE, subRegionFlags |-> readAWAP_LUT(lutFile)]
        @@ Region(HeaderDict, fieldData)

\* The outcome of sys.exit() after the print of lines 110 and 120: the
\* SystemExit exception, exit status 0, and the line printed.
SystemExit ==
    [result |-> "SystemExit", status |-> 0,
     printed |-> "WARNING:  SubRegionFlags table not set!  No output returned."]

\* dict.keys(): the names, in the order of the dictionary (not modelled).
keys(d) == DOMAIN d

\* dict.values(): the ids with their multiplicities, as a bag.
values(d) ==
    [v \in {d[n] : n \in DOMAIN d} |->
        Cardinality({n \in DOMAIN d : d[n] = v})]

\* Faulty variant of getSubRegionNames: an empty list when no table is set.
getSubRegionNamesOrEmpty(region) ==
    [result |-> "return",
     value |-> IF region.hasSubRegionDefs THEN keys(region.subRegionFlags)
               ELSE {}]

\* Region.getSubRegionNames and Region.getSubRegionIDs (inherited by
\* SubRegion).
getSubRegionNames(region) ==
    IF region.hasSubRegionDefs
    THEN [result |-> "return", value |-> keys(region.subRegionFlags)]
    ELSE SystemExit

getSubRegionIDs(region) ==
    IF region.hasSubRegionDefs
    THEN [result |-> "return", value |-> values(region.subRegionFlags)]
    ELSE SystemExit

\* A ParentRegion whose latitude axis ascends (getLats with Reverse=False)
\* and whose reversedLats attribute is False: the parent the else branches
\* of SubRegion.__init__ are written for.
AscendingRegion(HeaderDict, fieldData) ==
    [Region(HeaderDict, fieldData) EXCEPT
        !.lats = getLats(HeaderDict, FALSE),
        !.reversedLats = False]

(***************************************************************************)
(* awapRegion.SubRegion                                                    *)
(***************************************************************************)
\* np.where(ParentRegion.topoMask == RegFlag): the (row, column) indices of
\* the cells that compare equal to RegFlag.  The comparison of a masked
\* array is False in the masked cells (RegFlag is never 0).
whereEqual(topoMask, RegFlag) ==
    {rc \in DOMAIN topoMask.data :
        ~topoMask.mask[rc] /\ topoMask.data[rc] = RegFlag}

\* np.where(axis >= bound)[0] and np.where(axis <= bound)[0]
whereGE(axis, bound) == {i \in DOMAIN axis : axis[i] >= bound}
whereLE(axis, bound) == {i \in DOMAIN axis : axis[i] <= bound}

\* Faulty variant of ExplicitBounds: the padding omits the tolerance.
ExplicitBoundsNoEpsilon(ParentRegion, BoundingBox) ==
    [minLon |-> BoundingBox[1] - ParentRegion.dLon,
     minLat |-> BoundingBox[2] - ParentRegion.dLat,
     maxLon |-> BoundingBox[3] + ParentRegion.dLon,
     maxLat |-> BoundingBox[4] + ParentRegion.dLat]

\* Lines 210-214: the caller's BoundingBox = [minLon, minLat, maxLon,
\* maxLat] padded by one grid cell and the tolerance.
ExplicitBounds(ParentRegion, BoundingBox) ==
    [minLon |-> BoundingBox[1] - ParentRegion.dLon - epsilon,
     minLat |-> BoundingBox[2] - ParentRegion.dLat - epsilon,
     maxLon |-> BoundingBox[3] + ParentRegion.dLon + epsilon,
     maxLat |-> BoundingBox[4] + ParentRegion.dLat + epsilon]

\* Faulty variants of AutoBounds.  Swapped: the row of the minimum latitude
\* is taken to be the smallest matching row on every axis, reversed or not.
AutoBoundsSwapped(ParentRegion, cells) ==
    LET rows == {rc[1] : rc \in cells}
        cols == {rc[2] : rc \in cells}
    IN  [minLon |-> ParentRegion.lons[Min(cols)] - ParentRegion.dLon \div 2,
         maxLon |-> ParentRegion.lons[Max(cols)] + ParentRegion.dLon \div 2,
         minLat |-> ParentRegion.lats[Min(rows)] - ParentRegion.dLat \div 2,
         maxLat |-> ParentRegion.lats[Max(rows)] + ParentRegion.dLat \div 2]

\* FullCell: the envelope is widened by a whole cell instead of half a cell.
AutoBoundsFullCell(ParentRegion, cells) ==
    LET rows == {rc[1] : rc \in cells}
        cols == {rc[2] : rc \in cells}
        minLatIndex ==
            IF ParentRegion.reversedLats = True THEN Max(rows) ELSE Min(rows)
        maxLatIndex ==
            IF ParentRegion.reversedLats = True THEN Min(rows) ELSE Max(rows)
    IN  [minLon |-> ParentRegion.lons[Min(cols)] - ParentRegion.dLon,
         maxLon |-> ParentRegion.lons[Max(cols)] + ParentRegion.dLon,
         minLat |-> ParentRegion.lats[minLatIndex] - ParentRegion.dLat,
         maxLat |-> ParentRegion.lats[maxLatIndex] + ParentRegion.dLat]

\* Centres: the envelope of the cell centres, not widened.
AutoBoundsCentres(ParentRegion, cells) ==
    LET rows == {rc[1] : rc \in cells}
        cols == {rc[2] : rc \in cells}
        minLatIndex ==
            IF ParentRegion.reversedLats = True THEN Max(rows) ELSE Min(rows)
        maxLatIndex ==
            IF ParentRegion.reversedLats = True THEN Min(rows) ELSE Max(rows)
    IN  [minLon |-> ParentRegion.lons[Min(cols)],
         maxLon |-> ParentRegion.lons[Max(cols)],
         minLat |-> ParentRegion.lats[minLatIndex],
         maxLat |-> ParentRegion.lats[maxLatIndex]]

\* Lines 215-233: the bounds derived from the parent's topoMask and
\* RegFlag; cells is np.where(ParentRegion.topoMask == RegFlag), not empty.
AutoBounds(ParentRegion, cells) ==
    LET rows == {rc[1] : rc \in cells}
        cols == {rc[2] : rc \in cells}
        minLonIndex == Min(cols)
        maxLonIndex == Max(cols)
        minLatIndex ==
            IF ParentRegion.reversedLats = True THEN Max(rows) ELSE Min(rows)
        maxLatIndex ==
            IF ParentRegion.reversedLats = True THEN Min(rows) ELSE Max(rows)
    IN  [minLon |-> ParentRegion.lons[minLonIndex] - ParentRegion.dLon \div 2,
         maxLon |-> ParentRegion.lons[maxLonIndex] + ParentRegion.dLon \div 2,
         minLat |-> ParentRegion.lats[minLatIndex] - ParentRegion.dLat \div 2,
         maxLat |-> ParentRegion.lats[maxLatIndex] + ParentRegion.dLat \div 2]

\* Faulty variant of LatWindow: on a reversed axis the slice still runs
\* from the index of the minimum latitude to that of the maximum latitude.
LatWindowNoSwap(ParentRegion, minLat, maxLat) ==
    LET ge == whereGE(ParentRegion.lats, minLat)
        le == whereLE(ParentRegion.lats, maxLat)
    IN  IF ParentRegion.reversedLats = True
        THEN [parentMinLatIndex |-> Max(ge),
              parentMaxLatIndex |-> Min(le),
              parentLatStart |-> Max(ge),
              parentLatStop |-> Min(le) + 1]
        ELSE [parentMinLatIndex |-> Min(ge),
              parentMaxLatIndex |-> Max(le),
              parentLatStart |-> Min(ge),
              parentLatStop |-> Max(le) + 1]

\* Faulty variant of LatWindow: the axis is taken to ascend whatever
\* reversedLats says.
LatWindowAscendingOnly(ParentRegion, minLat, maxLat) ==
    LET ge == whereGE(ParentRegion.lats, minLat)
        le == whereLE(ParentRegion.lats, maxLat)
    IN  [parentMinLatIndex |-> Min(ge),
         parentMaxLatIndex |-> Max(le),
         parentLatStart |-> Min(ge),
         parentLatStop |-> Max(le) + 1]

\* Lines 239-252: the parent's latitude indices that lie in
\* [minLat, maxLat]; both index sets are not empty.
LatWindow(ParentRegion, minLat, maxLat) ==
    LET ge == whereGE(ParentRegion.lats, minLat)
        le == whereLE(ParentRegion.lats, maxLat)
    IN  IF ParentRegion.reversedLats = True
        THEN [parentMinLatIndex |-> Max(ge),
              parentMaxLatIndex |-> Min(le),
              parentLatStart |-> Min(le),
              parentLatStop |-> Max(ge) + 1]
        ELSE [parentMinLatIndex |-> Min(ge),
              parentMaxLatIndex |-> Max(le),
              parentLatStart |-> Min(ge),
              parentLatStop |-> Max(le) + 1]

\* Faulty variant of LonWindow: InclusiveStop, the stop index is the last
\* index inside the bounds, not one past it.
LonWindowInclusiveStop(ParentRegion, minLon, maxLon) ==
    LET ge == whereGE(ParentRegion.lons, minLon)
        le == whereLE(ParentRegion.lons, maxLon)
    IN  [parentMinLonIndex |-> Min(ge),
         parentLonStart |-> Min(ge),
         parentMaxLonIndex |-> Max(le),
         parentLonStop |-> Max(le)]

\* Lines 257-262: the parent's longitude indices that lie in
\* [minLon, maxLon]; both index sets are not empty.
LonWindow(ParentRegion, minLon, maxLon) ==
    LET ge == whereGE(ParentRegion.lons, minLon)
        le == whereLE(ParentRegion.lons, maxLon)
    IN  [parentMinLonIndex |-> Min(ge),
         parentLonStart |-> Min(ge),
         parentMaxLonIndex |-> Max(le),
         parentLonStop |-> Max(le) + 1]

\* Faulty variants of SubTopoMask.  ParentMask: the child's mask is the
\* cropped mask of the parent (regionTopoMask), not the comparison with the
\* region id.
SubTopoMaskParentMask(ParentRegion, regionID, latW, lonW) ==
    [data |-> slice2(ParentRegion.topoMask.data,
                     latW.parentLatStart, latW.parentLatStop,
                     lonW.parentLonStart, lonW.parentLonStop),
     mask |-> slice2(ParentRegion.topoMask.mask,
                     latW.parentLatStart, latW.parentLatStop,
                     lonW.parentLonStart, lonW.parentLonStop)]

\* Unmasked: the cropped data with no cell masked.
SubTopoMaskUnmasked(ParentRegion, regionID, latW, lonW) ==
    LET regionIDs == slice2(ParentRegion.topoMask.data,
                            latW.parentLatStart, latW.parentLatStop,
                            lonW.parentLonStart, lonW.parentLonStop)
    IN  [data |-> regionIDs,
         mask |-> [rc \in DOMAIN regionIDs |-> FALSE]]

\* Uncropped: the comparison is made on the whole parent array.
SubTopoMaskUncropped(ParentRegion, regionID, latW, lonW) ==
    [data |-> ParentRegion.topoMask.data,
     mask |-> [rc \in DOMAIN ParentRegion.topoMask.data |->
                  ParentRegion.topoMask.data[rc] # regionID]]

\* Lines 269-277: the parent's data cropped to the window, masked wherever
\* it differs from the region id.
SubTopoMask(ParentRegion, regionID, latW, lonW) ==
    LET regionIDs == slice2(ParentRegion.topoMask.data,
                            latW.parentLatStart, latW.parentLatStop,
                            lonW.parentLonStart, lonW.parentLonStop)
    IN  [data |-> regionIDs,
         mask |-> [rc \in DOMAIN regionIDs |-> regionIDs[rc] # regionID]]

\* Lines 235-285, once the bounds are known.
SubRegionFromBounds(ParentRegion, RegFlag, bounds) ==
    IF \/ whereGE(ParentRegion.lats, bounds.minLat) = {}
       \/ whereLE(ParentRegion.lats, bounds.maxLat) = {}
       \/ whereGE(ParentRegion.lons, bounds.minLon) = {}
       \/ whereLE(ParentRegion.lons, bounds.maxLon) = {}
    THEN [result |-> "IndexError"]
    ELSE
        LET latW == LatWindow(ParentRegion, bounds.minLat, bounds.maxLat)
            lonW == LonWindow(ParentRegion, bounds.minLon, bounds.maxLon)
            topoMask == SubTopoMask(ParentRegion, RegFlag, latW, lonW)
        IN  [result |-> "SubRegion",
             dLon |-> ParentRegion.dLon,
             dLat |-> ParentRegion.dLat,
             missingFlag |-> ParentRegion.missingFlag,
             reversedLats |-> ParentRegion.reversedLats,
             subRegionLevel |-> ParentRegion.subRegionLevel + 1,
             regionID |-> RegFlag,
             minLon |-> bounds.minLon,
             minLat |-> bounds.minLat,
             maxLon |-> bounds.maxLon,
             maxLat |-> bounds.maxLat,
             parentMinLatIndex |-> latW.parentMinLatIndex,
             parentMaxLatIndex |-> latW.parentMaxLatIndex,
             parentLatStart |-> latW.parentLatStart,
             parentLatStop |-> latW.parentLatStop,
             numLats |-> latW.parentLatStop - latW.parentLatStart,
             lats |-> slice(ParentRegion.lats,
                            latW.parentLatStart, latW.parentLatStop),
             parentMinLonIndex |-> lonW.parentMinLonIndex,
             parentLonStart |-> lonW.parentLonStart,
             parentMaxLonIndex |-> lonW.parentMaxLonIndex,
             parentLonStop |-> lonW.parentLonStop,
             numLons |-> lonW.parentLonStop - lonW.parentLonStart,
             lons |-> slice(ParentRegion.lons,
                            lonW.parentLonStart, lonW.parentLonStop),
             topoMask |-> topoMask,
             numUnmaskedPoints |-> count(topoMask),
             hasSubRegionDefs |-> FALSE]

\* SubRegion.__init__(ParentRegion, RegFlag, BoundingBox): the object
\* constructed, or the exception that ends the construction.
\*   line 197      reads ParentRegion.reversedLats (AttributeError if the
\*                 parent never assigned it);
\*   lines 216-231 .min()/.max() of an empty index array (ValueError);
\*   lines 240-261 [0]/[-1] of an empty index array (IndexError).
SubRegion(ParentRegion, RegFlag, BoundingBox) ==
    IF ParentRegion.reversedLats = Unset
    THEN [result |-> "AttributeError"]
    ELSE IF BoundingBox # None
    THEN SubRegionFromBounds(ParentRegion, RegFlag,
                             ExplicitBounds(ParentRegion, BoundingBox))
    ELSE IF whereEqual(ParentRegion.topoMask, RegFlag) = {}
    THEN [result |-> "ValueError"]
    ELSE SubRegionFromBounds(ParentRegion, RegFlag,
             AutoBounds(ParentRegion,
                        whereEqual(ParentRegion.topoMask, RegFlag)))

(***************************************************************************)
(* Inputs.                                                                 *)
(***************************************************************************)
\* The header dictionaries readAWAP_hdr can return, up to MaxCells cells.
Headers ==
    {h \in [nrows : 1..MaxCells, ncols : 1..MaxCells, cellsize : CellSizes,
            xllcorner : XllCorners, yllcorner : YllCorners,
            nodata_value : NoDataValues] :
        h.nrows * h.ncols <= MaxCells}

\* The mask files of a header: every cell holds a category id or the
\* nodata value.
FieldData(h) ==
    [(0..(h.nrows - 1)) \X (0..(h.ncols - 1)) ->
        CategoryIDs \cup {h.nodata_value}]

\* The 3x3 grid of the documented scenario: cellsize 1.0 (4 units),
\* corners 0.0, mask [[1,1,2],[1,1,2],[3,3,3]], row 0 northernmost.
ScenarioHeader ==
    [nrows |-> 3, ncols |-> 3, cellsize |-> 4, xllcorner |-> 0,
     yllcorner |-> 0, nodata_value |-> -999]

ScenarioMask ==
    [rc \in (0..2) \X (0..2) |->
        IF rc[1] = 2 THEN 3 ELSE IF rc[2] = 2 THEN 2 ELSE 1]

\* The ParentRegion objects handed to SubRegion.
ParentRegions ==
    UNION {{Region(h, f) : f \in FieldData(h)}
             \cup {AscendingRegion(h, f) : f \in FieldData(h)} :
           h \in Headers}
    \cup {Region(ScenarioHeader, ScenarioMask),
          AscendingRegion(ScenarioHeader, ScenarioMask)}

\* The RegFlag arguments: a category id or the parent's missing data flag.
\* The ids are interchangeable in the mask files enumerated, so id 1 stands
\* for each of them and the others are the foreign cells.
RegFlags == {1} \cup NoDataValues

\* The BoundingBox arguments: [minLon, minLat, maxLon, maxLat] with
\* minLon <= maxLon and minLat <= maxLat.
BoundingBoxes ==
    {<<lon0, lat0, lon1, lat1>> :
        lon0 \in BoxLons, lat0 \in BoxLats, lon1 \in BoxLons, lat1 \in BoxLats}

WellFormedBoxes ==
    {B \in BoundingBoxes : B[1] <= B[3] /\ B[2] <= B[4]}

(***************************************************************************)
(* State machine: one parent Region, and the SubRegion construction made   *)
(* from it (its arguments and its outcome).  A behaviour follows one       *)
(* construction.                                                           *)
(***************************************************************************)
NoCall == [RegFlag |-> 0, BoundingBox |-> None, obj |-> [result |-> "none"]]

\* The variables of the other state machines of this module, at rest.
NoRegions == <<>>
NoReport == [op |-> "none"]
NoGrid == [op |-> "none"]
NoRun == [pc |-> "none"]
NoKld == [op |-> "none"]
NoSeason == [op |-> "none"]
NoMpi == [app |-> "none"]

Init ==
    /\ parent \in ParentRegions
    /\ sub = NoCall
    /\ regions = NoRegions
    /\ report = NoReport
    /\ grid = NoGrid
    /\ tdpdf = NoRun
    /\ kld = NoKld
    /\ season = NoSeason
    /\ mpi = NoMpi

\* SubRegion(parent, k): automatic bounding box.
AutoSubRegion ==
    /\ sub = NoCall
    /\ \E k \in RegFlags :
          sub' = [RegFlag |-> k, BoundingBox |-> None,
                  obj |-> SubRegion(parent, k, None)]
    /\ UNCHANGED <<parent, regions, report, grid, tdpdf, kld, season, mpi>>

\* SubRegion(parent, k, BoundingBox=B): explicit bounding box.
BoxSubRegion ==
    /\ sub = NoCall
    /\ \E k \in RegFlags, B \in WellFormedBoxes :
          sub' = [RegFlag |-> k, BoundingBox |-> B,
                  obj |-> SubRegion(parent, k, B)]
    /\ UNCHANGED <<parent, regions, report, grid, tdpdf, kld, season, mpi>>

Next == AutoSubRegion \/ BoxSubRegion

Spec == Init /\ [][Next]_vars

(***************************************************************************)
(* Vocabulary of the properties.                                           *)
(***************************************************************************)
Called == sub # NoCall
Constructed == sub.obj.result = "SubRegion"
Automatic == Called /\ sub.BoundingBox = None
Explicit == Called /\ sub.BoundingBox # None
Descending == parent.reversedLats = True
Ascending == parent.reversedLats = False

\* The parent cells that are unmasked and hold the id k.
CategoryCells(k) ==
    {rc \in DOMAIN parent.topoMask.data :
        parent.topoMask.data[rc] = k /\ ~parent.topoMask.mask[rc]}
CategoryRows(k) == {rc[1] : rc \in CategoryCells(k)}
CategoryCols(k) == {rc[2] : rc \in CategoryCells(k)}

\* The rows and columns of the index window.
WindowRows == sub.obj.parentLatStart..(sub.obj.parentLatStop - 1)
WindowCols == sub.obj.parentLonStart..(sub.obj.parentLonStop - 1)

\* The parent rows and columns whose cell centre lies inside the child's
\* bounding box.
CentreRows ==
    {i \in DOMAIN parent.lats :
        sub.obj.minLat <= parent.lats[i] /\ parent.lats[i] <= sub.obj.maxLat}
CentreCols ==
    {j \in DOMAIN parent.lons :
        sub.obj.minLon <= parent.lons[j] /\ parent.lons[j] <= sub.obj.maxLon}

\* The parent rows and columns whose cell (centre -/+ half a cell) overlaps
\* the child's bounding box: the least range of cells that covers the part
\* of the box inside the parent's extent.
CoverRows ==
    {i \in DOMAIN parent.lats :
        /\ parent.lats[i] - parent.dLat \div 2 < sub.obj.maxLat
        /\ parent.lats[i] + parent.dLat \div 2 > sub.obj.minLat}
CoverCols ==
    {j \in DOMAIN parent.lons :
        /\ parent.lons[j] - parent.dLon \div 2 < sub.obj.maxLon
        /\ parent.lons[j] + parent.dLon \div 2 > sub.obj.minLon}

\* Some cell of the child array holds another category (neither k nor the
\* missing data flag).
ForeignCellInWindow ==
    \E rc \in DOMAIN sub.obj.topoMask.data :
        /\ sub.obj.topoMask.data[rc] # sub.RegFlag
        /\ sub.obj.topoMask.data[rc] # parent.missingFlag

C1_WitnessAscending ==
    /\ Automatic /\ Constructed /\ Ascending
    /\ Cardinality(CategoryRows(sub.RegFlag)) >= 2
    /\ ForeignCellInWindow
    /\ sub.obj.numUnmaskedPoints = 3

(***************************************************************************)
(* C2.  In every constructed SubRegion the child array covers the index    *)
(* window, and its cell (r, c) is unmasked exactly when the parent's mask  *)
(* value at (parentLatStart + r, parentLonStart + c) equals the category   *)
(* id; cells of other categories inside the window are present but masked. *)
(***************************************************************************)
C2_ChildMaskSelectsCategory ==
    Constructed =>
        /\ DOMAIN sub.obj.topoMask.mask =
              (0..(sub.obj.parentLatStop - sub.obj.parentLatStart - 1))
                 \X (0..(sub.obj.parentLonStop - sub.obj.parentLonStart - 1))
        /\ \A rc \in DOMAIN sub.obj.topoMask.mask :
              (~sub.obj.topoMask.mask[rc]) <=>
                  (parent.topoMask.data[<<sub.obj.parentLatStart + rc[1],
                                          sub.obj.parentLonStart + rc[2]>>]
                      = sub.RegFlag)

C2_Witness ==
    /\ Explicit /\ Constructed
    /\ sub.obj.parentLatStart > 0
    /\ ForeignCellInWindow
    /\ \E rc \in DOMAIN sub.obj.topoMask.mask : ~sub.obj.topoMask.mask[rc]
    /\ \E rc \in DOMAIN sub.obj.topoMask.mask :
          sub.obj.topoMask.data[rc] = parent.missingFlag

(***************************************************************************)
(* C3.  For every SubRegion constructed (automatic, or from a bounding box *)
(* with minLon <= maxLon and minLat <= maxLat) from a parent with a        *)
(* descending latitude axis, the index window is a non-empty, in-range     *)
(* slice that is not inverted.                                             *)
(***************************************************************************)
C3_DescendingWindowNotInverted ==
    (Constructed /\ Descending) =>
        /\ 0 <= sub.obj.parentLatStart
        /\ sub.obj.parentLatStart < sub.obj.parentLatStop
        /\ sub.obj.parentLatStop <= parent.numLats
        /\ 0 <= sub.obj.parentLonStart
        /\ sub.obj.parentLonStart < sub.obj.parentLonStop
        /\ sub.obj.parentLonStop <= parent.numLons

C3_Witness ==
    /\ Constructed /\ Descending /\ Explicit
    /\ 0 < sub.obj.parentLatStart
    /\ sub.obj.parentLatStart + 1 < sub.obj.parentLatStop
    /\ sub.obj.parentLatStop < parent.numLats

(***************************************************************************)
(* C4.  As claimed: for every constructed SubRegion, in both modes and     *)
(* both orientations, the index window is the minimal contiguous range of  *)
(* parent rows and columns whose cells contain the reported bounding box   *)
(* (clipped to the parent's extent).  Stated for the parents              *)
(* Region.__init__ builds (descending axis) and for category ids.          *)
(***************************************************************************)
C4_WindowIsMinimalCellCover ==
    (Constructed /\ Descending /\ sub.RegFlag \in CategoryIDs)
        => (WindowRows = CoverRows /\ WindowCols = CoverCols)

(***************************************************************************)
(* C4, amended.  For every constructed SubRegion the index window is       *)
(* exactly the range of parent rows and columns whose cell CENTRES lie     *)
(* inside the reported bounding box; in automatic mode, where the box lies *)
(* on cell edges, this is also the minimal range of cells containing it.   *)
(***************************************************************************)
C4_WindowIsCentresInBox ==
    Constructed =>
        /\ WindowRows = CentreRows
        /\ WindowCols = CentreCols
        /\ Automatic => (WindowRows = CoverRows /\ WindowCols = CoverCols)

C4_Witness ==
    /\ Explicit /\ Constructed /\ Descending
    /\ WindowRows = CentreRows
    /\ WindowRows # CoverRows
    /\ WindowCols # CoverCols

C6_AutoBoundsAreCellEdgeEnvelope ==
    (Automatic /\ Constructed) =>
        LET rows == CategoryRows(sub.RegFlag)
            cols == CategoryCols(sub.RegFlag)
            half == parent.dLat \div 2
        IN  /\ sub.obj.minLon = parent.lons[Min(cols)] - parent.dLon \div 2
            /\ sub.obj.maxLon = parent.lons[Max(cols)] + parent.dLon \div 2
            /\ sub.obj.minLat = Min({parent.lats[r] : r \in rows}) - half
            /\ sub.obj.maxLat = Max({parent.lats[r] : r \in rows}) + half
            /\ Descending =>
                  /\ sub.obj.minLat = parent.lats[Max(rows)] - half
                  /\ sub.obj.maxLat = parent.lats[Min(rows)] + half
            /\ Ascending =>
                  /\ sub.obj.minLat = parent.lats[Min(rows)] - half
                  /\ sub.obj.maxLat = parent.lats[Max(rows)] + half
            /\ sub.obj.minLat < sub.obj.maxLat
            /\ sub.obj.minLon < sub.obj.maxLon

C6_Witness ==
    /\ Automatic /\ Constructed /\ Descending
    /\ Max(CategoryRows(sub.RegFlag)) > Min(CategoryRows(sub.RegFlag)) + 1
    /\ Min(CategoryRows(sub.RegFlag)) > 0
    /\ sub.obj.maxLat - sub.obj.minLat = 3 * parent.dLat

(***************************************************************************)
(* C7.  With an explicit BoundingBox B = [minLon, minLat, maxLon, maxLat]  *)
(* the working bounding box is B widened on each of the four sides by one  *)
(* cell size plus epsilon, whatever the parent's mask holds.               *)
(***************************************************************************)
C7_ExplicitBoundsArePaddedBox ==
    (Explicit /\ Constructed) =>
        /\ sub.obj.minLon = sub.BoundingBox[1] - (parent.dLon + epsilon)
        /\ sub.obj.minLat = sub.BoundingBox[2] - (parent.dLat + epsilon)
        /\ sub.obj.maxLon = sub.BoundingBox[3] + (parent.dLon + epsilon)
        /\ sub.obj.maxLat = sub.BoundingBox[4] + (parent.dLat + epsilon)

\* The box is used although the mask holds no cell of the category.
C7_Witness ==
    /\ Explicit /\ Constructed
    /\ CategoryCells(sub.RegFlag) = {}
    /\ sub.obj.numUnmaskedPoints = 0
    /\ sub.BoundingBox[2] # sub.BoundingBox[4]

(***************************************************************************)
(* C8.  For every constructed SubRegion the parent's axes cropped with the *)
(* index window are not empty and their minimum and maximum lie within the *)
(* reported bounding box widened by half a cell.                           *)
(***************************************************************************)
C8_CroppedAxesWithinBounds ==
    Constructed =>
        LET lats == slice(parent.lats, sub.obj.parentLatStart,
                          sub.obj.parentLatStop)
            lons == slice(parent.lons, sub.obj.parentLonStart,
                          sub.obj.parentLonStop)
        IN  /\ DOMAIN lats # {} /\ DOMAIN lons # {}
            /\ lats = sub.obj.lats /\ lons = sub.obj.lons
            /\ sub.obj.minLat - parent.dLat \div 2
                  <= Min({lats[i] : i \in DOMAIN lats})
            /\ Max({lats[i] : i \in DOMAIN lats})
                  <= sub.obj.maxLat + parent.dLat \div 2
            /\ sub.obj.minLon - parent.dLon \div 2
                  <= Min({lons[j] : j \in DOMAIN lons})
            /\ Max({lons[j] : j \in DOMAIN lons})
                  <= sub.obj.maxLon + parent.dLon \div 2

C8_Witness ==
    /\ Explicit /\ Constructed /\ Ascending
    /\ sub.obj.parentLatStart > 0
    /\ sub.obj.parentLonStart > 0
    /\ sub.obj.lats[0] > sub.obj.minLat
    /\ sub.obj.lons[0] > sub.obj.minLon

(***************************************************************************)
(* C9.  For every constructed SubRegion the shape of its topoMask is       *)
(* (parentLatStop - parentLatStart, parentLonStop - parentLonStart)        *)
(* = (numLats, numLons) = (len(lats), len(lons)), so an array of the       *)
(* parent's shape cropped with the four window bounds fits the mask cell   *)
(* for cell.                                                               *)
(***************************************************************************)
C9_MaskShapeIsWindowShape ==
    Constructed =>
        LET shape == (0..(sub.obj.numLats - 1)) \X (0..(sub.obj.numLons - 1))
        IN  /\ sub.obj.numLats = sub.obj.parentLatStop - sub.obj.parentLatStart
            /\ sub.obj.numLons = sub.obj.parentLonStop - sub.obj.parentLonStart
            /\ sub.obj.numLats = Cardinality(DOMAIN sub.obj.lats)
            /\ sub.obj.numLons = Cardinality(DOMAIN sub.obj.lons)
            /\ DOMAIN sub.obj.topoMask.mask = shape
            /\ DOMAIN sub.obj.topoMask.data = shape
            /\ DOMAIN slice2(parent.topoMask.mask,
                              sub.obj.parentLatStart, sub.obj.parentLatStop,
                              sub.obj.parentLonStart, sub.obj.parentLonStop)
                  = DOMAIN sub.obj.topoMask.mask

C9_Witness ==
    /\ Constructed /\ Automatic
    /\ sub.obj.numLats = 2 /\ sub.obj.numLons = 2
    /\ parent.numLats = 3 /\ parent.numLons = 2
    /\ sub.obj.parentLatStart = 1

(***************************************************************************)
(* C10.  As claimed: when no BoundingBox is supplied and no unmasked cell  *)
(* of the parent mask equals k, the construction fails with a distinct,    *)
(* named "category not present in parent mask" error, not with an          *)
(* unrelated indexing or empty-reduction exception, and no SubRegion is    *)
(* produced.  Stated for the parents Region.__init__ builds (descending    *)
(* axis) and for category ids.                                             *)
(***************************************************************************)
C10_AbsentCategoryIsNamedError ==
    (Automatic /\ Descending /\ sub.RegFlag \in CategoryIDs
        /\ CategoryCells(sub.RegFlag) = {})
        => sub.obj.result = "CategoryNotPresentError"

(***************************************************************************)
(* State machine of a family of regions: one top-level Region and the      *)
(* SubRegions constructed one after another, each from the Region or from  *)
(* a SubRegion constructed before it (as the loops of                      *)
(* Test/test-awapRegion-ConAUS+States.py do from conAUS).                  *)
(***************************************************************************)
\* Largest grid of the family's Region, and the number of constructions
\* followed.
MaxFamilyCells == 3
MaxRegions == 2

\* The Regions a family starts from: Region.__init__ on every header and
\* mask file of up to MaxFamilyCells cells.
FamilyParents ==
    UNION {{Region(h, f) : f \in FieldData(h)} :
           h \in {g \in Headers : g.nrows * g.ncols <= MaxFamilyCells}}

\* The explicit boxes of a family: the whole longitude range, from the
\* southernmost latitude up to each latitude of BoxLats north of it.
FamilyBoxes ==
    {B \in WellFormedBoxes :
        /\ B[1] = Min(BoxLons) /\ B[3] = Max(BoxLons)
        /\ B[2] = Min(BoxLats) /\ B[4] > B[2]}

\* What SubRegion.__init__ leaves of the object passed as ParentRegion.
\* Every assignment of lines 190-282 is to an attribute of self;
\* ParentRegion is only read.  regionIDs (line 269) is a slice of the
\* parent's data, and ma.masked_array (line 276) wraps it with a mask of its
\* own without writing to it.
ParentMaskedInPlace(ParentRegion, RegFlag, BoundingBox) ==
    IF SubRegion(ParentRegion, RegFlag, BoundingBox).result = "SubRegion"
    THEN [ParentRegion EXCEPT
             !.topoMask.mask = [rc \in DOMAIN ParentRegion.topoMask.data |->
                                   ParentRegion.topoMask.data[rc] # RegFlag]]
    ELSE ParentRegion

ParentAfterSubRegion(ParentRegion, RegFlag, BoundingBox) == ParentRegion

\* The object regions[p], p = 0 being the top-level Region.
FamilyMember(p) == IF p = 0 THEN parent ELSE regions[p].obj

\* The program is running: no construction has raised an exception.
FamilyRunning ==
    \A i \in 1..Len(regions) : regions[i].obj.result = "SubRegion"

InitFamily ==
    /\ parent \in FamilyParents
    /\ regions = NoRegions
    /\ sub = NoCall
    /\ report = NoReport
    /\ grid = NoGrid
    /\ tdpdf = NoRun
    /\ kld = NoKld
    /\ season = NoSeason
    /\ mpi = NoMpi

\* SubRegion(regions[p], k, BoundingBox=B), appended to the list of regions.
ConstructSubRegion(p, k, B) ==
    LET made == [ParentRegion |-> p, RegFlag |-> k, BoundingBox |-> B,
                 obj |-> SubRegion(FamilyMember(p), k, B)]
        left == ParentAfterSubRegion(FamilyMember(p), k, B)
    IN  /\ parent' = IF p = 0 THEN left ELSE parent
        /\ regions' = Append(IF p = 0 THEN regions
                             ELSE [regions EXCEPT ![p].obj = left], made)
        /\ UNCHANGED <<sub, report, grid, tdpdf, kld, season, mpi>>

\* A SubRegion of the top-level Region.
FamilySubRegion ==
    /\ FamilyRunning
    /\ Len(regions) < MaxRegions
    /\ \E k \in RegFlags, B \in {None} \cup FamilyBoxes :
          ConstructSubRegion(0, k, B)

\* A SubRegion whose ParentRegion is a SubRegion constructed before.
NestedSubRegion ==
    /\ FamilyRunning
    /\ Len(regions) < MaxRegions
    /\ \E p \in 1..Len(regions), k \in RegFlags, B \in {None} \cup FamilyBoxes :
          ConstructSubRegion(p, k, B)

NextFamily == FamilySubRegion \/ NestedSubRegion

SpecFamily == InitFamily /\ [][NextFamily]_vars

(***************************************************************************)
(* C11.  A SubRegion whose ParentRegion is itself a SubRegion is rejected: *)
(* whatever the sequence of constructions, every region constructed is a   *)
(* SubRegion of the top-level Region (subRegionLevel 1), and a             *)
(* construction from a SubRegion ends in an error.  Stated for the         *)
(* automatic constructions of a category id.                               *)
(***************************************************************************)
C11_NestedSubRegionIsRejected ==
    \A i \in 1..Len(regions) :
        (regions[i].RegFlag \in CategoryIDs /\ regions[i].BoundingBox = None)
            => /\ regions[i].obj.result = "SubRegion"
                     => regions[i].obj.subRegionLevel <= 1
               /\ regions[i].ParentRegion # 0
                     => regions[i].obj.result # "SubRegion"

(***************************************************************************)
(* State machine of the sub-region table: a Region constructed with or     *)
(* without the id-lookup table, a SubRegion constructed from it, and one   *)
(* request made of either: getSubRegionNames, getSubRegionIDs, or the loop *)
(* of Test/test-AutoSubRegions.py that constructs a SubRegion per table    *)
(* entry and sums their numUnmaskedPoints.                                 *)
(***************************************************************************)
\* Names of the table and number of rows of the .csv file.
LutNames == {"NSW", "VIC"}
MaxLutRows == 2

LutFiles ==
    UNION {[1..n -> CategoryIDs \X LutNames] : n \in 0..MaxLutRows}

LookupParents ==
    UNION {{Region(h, f) : f \in FieldData(h)}
             \cup {RegionWithTable(h, f, l) :
                      f \in FieldData(h), l \in LutFiles} :
           h \in {g \in Headers : g.nrows * g.ncols <= MaxFamilyCells}}

InitLookup ==
    /\ parent \in LookupParents
    /\ sub = NoCall
    /\ regions = NoRegions
    /\ report = NoReport
    /\ grid = NoGrid
    /\ tdpdf = NoRun
    /\ kld = NoKld
    /\ season = NoSeason
    /\ mpi = NoMpi

\* SubRegion(parent, k), before any request.
LookupSubRegion ==
    /\ report = NoReport
    /\ AutoSubRegion

\* parent.getSubRegionNames() and parent.getSubRegionIDs()
RegionGetSubRegionNames ==
    /\ report = NoReport
    /\ report' = [op |-> "getSubRegionNames", on |-> "Region",
                  out |-> getSubRegionNames(parent)]
    /\ UNCHANGED <<parent, sub, regions, grid, tdpdf, kld, season, mpi>>

RegionGetSubRegionIDs ==
    /\ report = NoReport
    /\ report' = [op |-> "getSubRegionIDs", on |-> "Region",
                  out |-> getSubRegionIDs(parent)]
    /\ UNCHANGED <<parent, sub, regions, grid, tdpdf, kld, season, mpi>>

\* The same methods of the SubRegion constructed.
SubRegionGetSubRegionNames ==
    /\ report = NoReport
    /\ sub.obj.result = "SubRegion"
    /\ report' = [op |-> "getSubRegionNames", on |-> "SubRegion",
                  out |-> getSubRegionNames(sub.obj)]
    /\ UNCHANGED <<parent, sub, regions, grid, tdpdf, kld, season, mpi>>

SubRegionGetSubRegionIDs ==
    /\ report = NoReport
    /\ sub.obj.result = "SubRegion"
    /\ report' = [op |-> "getSubRegionIDs", on |-> "SubRegion",
                  out |-> getSubRegionIDs(sub.obj)]
    /\ UNCHANGED <<parent, sub, regions, grid, tdpdf, kld, season, mpi>>

\* Sum of f[n] over the names n of a set.
RECURSIVE Sum(_, _)
Sum(f, names) ==
    IF names = {} THEN 0
    ELSE LET n == CHOOSE x \in names : TRUE
         IN  f[n] + Sum(f, names \ {n})

\* (conAUS.topoMask == float(regionID)).sum()
matchingIDs(topoMask, regionID) ==
    Cardinality(whereEqual(topoMask, regionID))

\* The loop of Test/test-AutoSubRegions.py, lines 30-35, over the names of
\* the table: one automatic SubRegion per name; then the loop of
\* Test/test-awapRegion-ConAUS+States.py, lines 74-87, that adds up their
\* numUnmaskedPoints and counts the parent cells of each id.  The first
\* construction that raises an exception ends the script.
AutoStateRegions ==
    /\ report = NoReport
    /\ parent.hasSubRegionDefs
    /\ LET StateIDs == parent.subRegionFlags
           autoStateRegions ==
               [n \in DOMAIN StateIDs |-> SubRegion(parent, StateIDs[n], None)]
           failed == {n \in DOMAIN StateIDs :
                         autoStateRegions[n].result # "SubRegion"}
       IN  report' =
               IF failed # {}
               THEN [op |-> "autoStateRegions", on |-> "Region",
                     out |-> [result |->
                         autoStateRegions[CHOOSE n \in failed : TRUE].result]]
               ELSE [op |-> "autoStateRegions", on |-> "Region",
                     out |-> [result |-> "done",
                              numUnmaskedPoints |->
                                  [n \in DOMAIN StateIDs |->
                                      autoStateRegions[n].numUnmaskedPoints],
                              matchingIDs |->
                                  [n \in DOMAIN StateIDs |->
                                      matchingIDs(parent.topoMask, StateIDs[n])],
                              autoStateUMPts |->
                                  Sum([n \in DOMAIN StateIDs |->
                                          autoStateRegions[n].numUnmaskedPoints],
                                      DOMAIN StateIDs)]]
    /\ UNCHANGED <<parent, sub, regions, grid, tdpdf, kld, season, mpi>>

NextLookup ==
    \/ LookupSubRegion
    \/ AutoStateRegions
    \/ RegionGetSubRegionNames
    \/ RegionGetSubRegionIDs
    \/ SubRegionGetSubRegionNames
    \/ SubRegionGetSubRegionIDs

SpecLookup == InitLookup /\ [][NextLookup]_vars

(***************************************************************************)
(* C12.  getSubRegionNames and getSubRegionIDs of a Region constructed     *)
(* without the table, and of every SubRegion, return no value (no empty    *)
(* list either): the call ends the program with the message that the       *)
(* table is not set.  Of a Region constructed with the table they return   *)
(* exactly the names and the ids of the table.                             *)
(***************************************************************************)
C12_TableRequests ==
    report.op \in {"getSubRegionNames", "getSubRegionIDs"} =>
        /\ (report.on = "SubRegion" \/ ~parent.hasSubRegionDefs)
              => /\ report.out.result # "return"
                 /\ report.out = SystemExit
        /\ (report.on = "Region" /\ parent.hasSubRegionDefs)
              => /\ report.out.result = "return"
                 /\ report.op = "getSubRegionNames"
                       => report.out.value = DOMAIN parent.subRegionFlags
                 /\ report.op = "getSubRegionIDs"
                       => \A k \in CategoryIDs :
                             Cardinality({n \in DOMAIN parent.subRegionFlags :
                                 parent.subRegionFlags[n] = k})
                               = IF k \in DOMAIN report.out.value
                                 THEN report.out.value[k] ELSE 0

\* getSubRegionNames of a Region without the table.
C12_Witness ==
    /\ report # NoReport
    /\ report.op = "getSubRegionNames"
    /\ report.on = "Region"
    /\ ~parent.hasSubRegionDefs
    /\ report.out.result = "SystemExit"

\* The other cases: a SubRegion of a Region that has the table, and the
\* ids of a table of two names.
C12_WitnessSubRegion ==
    /\ report # NoReport
    /\ report.on = "SubRegion"
    /\ parent.hasSubRegionDefs
    /\ report.out.result = "SystemExit"

C12_WitnessTable ==
    /\ report # NoReport
    /\ report.op = "getSubRegionIDs"
    /\ report.on = "Region"
    /\ parent.hasSubRegionDefs
    /\ Cardinality(DOMAIN parent.subRegionFlags) = 2
    /\ report.out.result = "return"

(***************************************************************************)
(* State machine of the grid geometry: one header dictionary, and one call *)
(* of getLats, of getLons or of Region.__init__ on it.                     *)
(***************************************************************************)
\* Header values of the grid geometry: cell sizes (even, so that half a
\* cell is a whole number of units) and lower-left corners.
GridCellSizes == {2, 4}
GridXllCorners == {-3, 0}
GridYllCorners == {-8, 1}

GridHeaders ==
    {h \in [nrows : 1..MaxCells, ncols : 1..MaxCells,
            cellsize : GridCellSizes, xllcorner : GridXllCorners,
            yllcorner : GridYllCorners, nodata_value : NoDataValues] :
        h.nrows * h.ncols <= MaxCells}

InitGrid ==
    /\ grid \in {[op |-> "readAWAP_hdr", HeaderDict |-> h] : h \in GridHeaders}
    /\ parent = Region(ScenarioHeader, ScenarioMask)
    /\ sub = NoCall
    /\ regions = NoRegions
    /\ report = NoReport
    /\ tdpdf = NoRun
    /\ kld = NoKld
    /\ season = NoSeason
    /\ mpi = NoMpi

\* aio.getLats(HeaderDict, Reverse)
CallGetLats ==
    /\ grid.op = "readAWAP_hdr"
    /\ \E Reverse \in BOOLEAN :
          grid' = [op |-> "getLats", HeaderDict |-> grid.HeaderDict,
                   Reverse |-> Reverse,
                   out |-> getLats(grid.HeaderDict, Reverse)]
    /\ UNCHANGED <<parent, sub, regions, report, tdpdf, kld, season, mpi>>

\* aio.getLons(HeaderDict)
CallGetLons ==
    /\ grid.op = "readAWAP_hdr"
    /\ grid' = [op |-> "getLons", HeaderDict |-> grid.HeaderDict,
                out |-> getLons(grid.HeaderDict)]
    /\ UNCHANGED <<parent, sub, regions, report, tdpdf, kld, season, mpi>>

\* ar.Region(HeaderDict), the header pointing to the mask file f.
ConstructRegion ==
    /\ grid.op = "readAWAP_hdr"
    /\ \E f \in FieldData(grid.HeaderDict) :
          grid' = [op |-> "Region", HeaderDict |-> grid.HeaderDict,
                   out |-> Region(grid.HeaderDict, f)]
    /\ UNCHANGED <<parent, sub, regions, report, tdpdf, kld, season, mpi>>

NextGrid == CallGetLats \/ CallGetLons \/ ConstructRegion

SpecGrid == InitGrid /\ [][NextGrid]_vars

\* The centre of cell i (counted from the lower-left corner) of an axis.
CellCentre(corner, cellsize, i) == corner + i * cellsize + cellsize \div 2

(***************************************************************************)
(* C13.  Every Region constructed, whatever its grid (a single row         *)
(* included), has its reversedLats attribute defined, and it is true       *)
(* exactly when the latitude axis descends.                                *)
(***************************************************************************)
C13_ReversedLatsIsDefined ==
    grid.op = "Region" =>
        /\ grid.out.reversedLats \in {True, False}
        /\ grid.out.reversedLats = True
              <=> grid.out.lats[grid.out.numLats - 1] < grid.out.lats[0]

(***************************************************************************)
(* C14.  getLats returns nrows values and getLons ncols values.  The       *)
(* latitudes are the cell centres yllcorner + (i + 0.5) * cellsize,        *)
(* i in 0..nrows-1, from north to south by default (Reverse=True) and from *)
(* south to north with Reverse=False; the longitudes are the cell centres  *)
(* xllcorner + (j + 0.5) * cellsize from west to east.                     *)
(***************************************************************************)
C14_AxesAreCellCentres ==
    LET h == grid.HeaderDict
    IN  /\ grid.op = "getLats" =>
              /\ DOMAIN grid.out = 0..(h.nrows - 1)
              /\ \A i \in 0..(h.nrows - 1) :
                    grid.out[i] =
                        CellCentre(h.yllcorner, h.cellsize,
                                   IF grid.Reverse THEN h.nrows - 1 - i ELSE i)
        /\ grid.op = "getLons" =>
              /\ DOMAIN grid.out = 0..(h.ncols - 1)
              /\ \A j \in 0..(h.ncols - 1) :
                    grid.out[j] = CellCentre(h.xllcorner, h.cellsize, j)

\* A descending latitude axis of three rows or more.
C14_Witness ==
    /\ grid.op = "getLats"
    /\ grid.Reverse
    /\ grid.HeaderDict.nrows >= 3
    /\ grid.out[0] > grid.out[1]
    /\ grid.out[1] > grid.out[2]

\* An ascending latitude axis, and a longitude axis.
C14_WitnessAscending ==
    /\ grid.op = "getLats"
    /\ ~grid.Reverse
    /\ grid.HeaderDict.nrows >= 3
    /\ grid.out[0] < grid.out[1]

C14_WitnessLons ==
    /\ grid.op = "getLons"
    /\ grid.HeaderDict.ncols >= 3
    /\ grid.out[0] < grid.out[1]

(***************************************************************************)
(* C15.  The bounding box of a top-level Region is the box of the cell     *)
(* edges: minLat = yllcorner, minLon = xllcorner,                          *)
(* maxLat = nrows * cellsize + yllcorner,                                  *)
(* maxLon = ncols * cellsize + xllcorner.  Every cell centre of lats and   *)
(* lons lies strictly inside it, the outermost ones half a cell from the   *)
(* edge.                                                                   *)
(***************************************************************************)
C15_BoundingBoxIsCellEdges ==
    LET h == grid.HeaderDict
        r == grid.out
    IN  grid.op = "Region" =>
            /\ r.minLat = h.yllcorner
            /\ r.minLon = h.xllcorner
            /\ r.maxLat = h.nrows * h.cellsize + h.yllcorner
            /\ r.maxLon = h.ncols * h.cellsize + h.xllcorner
            /\ DOMAIN r.lats = 0..(h.nrows - 1)
            /\ DOMAIN r.lons = 0..(h.ncols - 1)
            /\ \A i \in DOMAIN r.lats :
                  r.minLat < r.lats[i] /\ r.lats[i] < r.maxLat
            /\ \A j \in DOMAIN r.lons :
                  r.minLon < r.lons[j] /\ r.lons[j] < r.maxLon
            /\ 2 * (Min({r.lats[i] : i \in DOMAIN r.lats}) - r.minLat) = r.dLat
            /\ 2 * (r.maxLat - Max({r.lats[i] : i \in DOMAIN r.lats})) = r.dLat
            /\ 2 * (Min({r.lons[j] : j \in DOMAIN r.lons}) - r.minLon) = r.dLon
            /\ 2 * (r.maxLon - Max({r.lons[j] : j \in DOMAIN r.lons})) = r.dLon

\* A Region of two rows and three columns.
C15_Witness ==
    /\ grid.op = "Region"
    /\ grid.out.numLats = 2
    /\ grid.out.numLons = 3
    /\ grid.out.maxLat - grid.out.minLat = 2 * grid.out.dLat
    /\ grid.out.maxLon - grid.out.minLon = 3 * grid.out.dLon
    /\ grid.out.numUnmaskedPoints >= 1

(***************************************************************************)
(* C16.  The construction of a SubRegion, automatic or explicit, changes   *)
(* neither its parent (topoMask values and mask, lats, lons, bounding box, *)
(* numUnmaskedPoints, reversedLats, subRegionLevel: the whole object) nor  *)
(* any region constructed before it, at every step of every sequence of    *)
(* constructions.                                                          *)
(***************************************************************************)
C16_ConstructionLeavesFamilyUnchanged ==
    [][/\ parent' = parent
       /\ Len(regions') >= Len(regions)
       /\ \A i \in 1..Len(regions) : regions'[i] = regions[i]]_vars

\* Two siblings constructed from the same Region, the first automatic and
\* the second explicit, the second masking cells the first does not.
C16_Witness ==
    /\ Len(regions) = 2
    /\ regions[1].ParentRegion = 0 /\ regions[2].ParentRegion = 0
    /\ regions[1].obj.result = "SubRegion"
    /\ regions[2].obj.result = "SubRegion"
    /\ regions[1].BoundingBox = None /\ regions[2].BoundingBox # None
    /\ regions[1].RegFlag = 1
    /\ regions[2].RegFlag # 1
    /\ parent.numUnmaskedPoints >= 2

(***************************************************************************)
(* C17.  When the ids of the table are distinct and every unmasked cell of *)
(* the parent holds one of them, the numUnmaskedPoints of the automatic    *)
(* SubRegions of all the ids add up to the parent's numUnmaskedPoints, and *)
(* the count of each SubRegion is the number of parent cells holding its   *)
(* id.                                                                     *)
(***************************************************************************)
C17_AutoSubRegionsPartitionParent ==
    LET StateIDs == parent.subRegionFlags
    IN  (/\ report.op = "autoStateRegions"
         /\ report.out.result = "done"
         /\ \A m, n \in DOMAIN StateIDs : StateIDs[m] = StateIDs[n] => m = n
         /\ \A rc \in DOMAIN parent.topoMask.data :
               ~parent.topoMask.mask[rc]
                   => \E n \in DOMAIN StateIDs :
                         parent.topoMask.data[rc] = StateIDs[n])
        => /\ report.out.autoStateUMPts = parent.numUnmaskedPoints
           /\ \A n \in DOMAIN StateIDs :
                 /\ report.out.numUnmaskedPoints[n] = report.out.matchingIDs[n]
                 /\ report.out.numUnmaskedPoints[n] =
                       Cardinality({rc \in DOMAIN parent.topoMask.data :
                           /\ ~parent.topoMask.mask[rc]
                           /\ parent.topoMask.data[rc] = StateIDs[n]})

\* Two ids, interleaved along the rows, with a masked cell between them.
C17_Witness ==
    /\ report.op = "autoStateRegions"
    /\ report.out.result = "done"
    /\ Cardinality(DOMAIN parent.subRegionFlags) = 2
    /\ parent.subRegionFlags["NSW"] # parent.subRegionFlags["VIC"]
    /\ parent.numUnmaskedPoints = 2
    /\ parent.numLats = 3
    /\ parent.topoMask.mask[<<1, 0>>]
    /\ report.out.autoStateUMPts = 2

(***************************************************************************)
(* Apps/tdpdfs-From-DataCubes.py: the time-dependent densities of one      *)
(* season.  A data cube holds, for every grid cell, a time series of       *)
(* num_times samples; the script flattens the unmasked samples, reshapes   *)
(* them to (num_locs, num_times) and computes one histogram per sliding    *)
(* window of win_size samples.                                             *)
(***************************************************************************)
\* Lines 124, 125 and 128 of the script.
win_size == 90
win_slide == 3
num_bins == 200

\* Line 126.  The divisor is the literal 3 of the source, not win_slide;
\* the division of two Python 2 integers rounds towards minus infinity, as
\* \div does.
NumWinsNoFirst(num_times) == (num_times - win_size) \div 3

NumWins(num_times) == 1 + (num_times - win_size) \div 3

\* Lines 140-142: the columns start:stop of window win.
WindowSlice(win) ==
    LET offset == win_slide * win
    IN  [start |-> offset, stop |-> offset + win_size]

\* samp2D[:, start:stop]: a slice is clipped to the extent of the axis.
sliceColumns(samp2D, num_locs, num_times, start, stop) ==
    LET last == IF stop < num_times THEN stop ELSE num_times
    IN  [lt \in (0..(num_locs - 1)) \X (0..(last - start - 1)) |->
            samp2D[<<lt[1], start + lt[2]>>]]

\* np.histogram of the values of a over bins equal bins of [lo, hi]: x are
\* the bins + 1 edges of np.linspace(lo, hi, bins + 1), stored multiplied
\* by bins so that they are integers; [lo, hi] is widened by 0.5 on either
\* side when lo = hi.  Every bin is closed on the left and open on the
\* right, the last one closed on both sides; values outside [lo, hi] are
\* not counted.  y holds the counts of the bins: density=True divides all
\* of them by the same number (the number of values counted times the bin
\* width).
histogramIn(a, bins, lo, hi) ==
    LET flat == lo = hi
        binOf == [i \in DOMAIN a |->
                     IF flat THEN bins \div 2
                     ELSE IF a[i] = hi THEN bins - 1
                     ELSE ((a[i] - lo) * bins) \div (hi - lo)]
        counted == {i \in DOMAIN a : lo <= a[i] /\ a[i] <= hi}
        used == {binOf[i] : i \in counted}
    IN  [x |-> [e \in 0..bins |->
                   IF flat THEN bins * lo - bins \div 2 + e
                   ELSE bins * lo + e * (hi - lo)],
         y |-> [b \in 0..(bins - 1) |->
                   IF b \in used
                   THEN Cardinality({i \in counted : binOf[i] = b})
                   ELSE 0]]

\* Faulty variant of histogram: the range argument is ignored and the
\* range is that of the values of a (the default of np.histogram).
histogramOwnRange(a, bins, range) ==
    histogramIn(a, bins, Min({a[i] : i \in DOMAIN a}),
                Max({a[i] : i \in DOMAIN a}))

\* np.histogram(a, bins=bins, range=range, density=True)
histogram(a, bins, range) == histogramIn(a, bins, range[1], range[2])

\* season_cubes[season].data[~season_cubes[season].data.mask]: the unmasked
\* samples as a 1-D array, in the order of the cube: cell after cell, and
\* within a cell in the order of time.
unmasked(entry) == ~entry.mask

unmaskedSample(cube, num_times) ==
    LET flat == [q \in 1..(Len(cube) * num_times) |->
                    LET cell == cube[(q - 1) \div num_times + 1]
                        t == (q - 1) % num_times
                    IN  [data |-> cell.data[t], mask |-> cell.mask[t]]]
        kept == SelectSeq(flat, unmasked)
    IN  [i \in 0..(Len(kept) - 1) |-> kept[i + 1].data]

\* Where data[~mask] took its values from: the cell (counted from 1 in the
\* order of the cube) and the time index of every element of the sample,
\* in the order of the sample.
sampleOrigin(cube, num_times) ==
    SelectSeq([q \in 1..(Len(cube) * num_times) |->
                  [loc |-> (q - 1) \div num_times + 1,
                   time |-> (q - 1) % num_times,
                   mask |-> cube[(q - 1) \div num_times + 1].mask[
                                (q - 1) % num_times]]],
              unmasked)

\* np.reshape(sample, (num_locs, num_times))
reshape(sample, num_locs, num_times) ==
    [lt \in (0..(num_locs - 1)) \X (0..(num_times - 1)) |->
        sample[lt[1] * num_times + lt[2]]]

(***************************************************************************)
(* State machine of the script for one season: the cube, then lines        *)
(* 81-137 (SetUp), one iteration of the loop of lines 139-147 at a time    *)
(* (Window), and lines 149-161 (Finish).  An exception ends the script.    *)
(***************************************************************************)
\* Numbers of files of a season (DataCube.ntimes), sample values, and the
\* times at which a series changes from one value to another.
TimeCounts == {60, 89, 90, 93, 96}
SampleValues == {0, 7}
ChangeTimes == {0, 92}

\* Largest number of grid cells of a cube.
MaxLocs == 2

\* The time at which a cell with a gap changes between missing and
\* observed, and the value it holds where observed.
GapTimes == {48}
GapValues == {7}

\* The cells of a cube of num_times samples: masked at all times (the
\* topographic mask), a series that holds one value before a change
\* time and another from then on, or a series that is missing (holds the
\* missing-data value, masked by ma.masked_values) before a gap time or
\* from a gap time on.
CubeCells(num_times) ==
    {[data |-> [t \in 0..(num_times - 1) |-> IF t < c THEN a ELSE b],
      mask |-> [t \in 0..(num_times - 1) |-> FALSE]] :
        a \in SampleValues, b \in SampleValues, c \in ChangeTimes}
    \cup {[data |-> [t \in 0..(num_times - 1) |-> v],
           mask |-> [t \in 0..(num_times - 1) |-> TRUE]] : v \in NoDataValues}
    \cup {[data |-> [t \in 0..(num_times - 1) |->
                        IF (t < g) = early THEN v ELSE a],
           mask |-> [t \in 0..(num_times - 1) |-> (t < g) = early]] :
             v \in NoDataValues, a \in GapValues, g \in GapTimes,
             early \in BOOLEAN}

Cubes ==
    UNION {{[ntimes |-> n, data |-> d] :
               d \in UNION {[1..k -> CubeCells(n)] : k \in 1..MaxLocs}} :
           n \in TimeCounts}

InitTdpdf ==
    /\ tdpdf \in {[pc |-> "cube", cube |-> c] : c \in Cubes}
    /\ parent = Region(ScenarioHeader, ScenarioMask)
    /\ sub = NoCall
    /\ regions = NoRegions
    /\ report = NoReport
    /\ grid = NoGrid
    /\ kld = NoKld
    /\ season = NoSeason
    /\ mpi = NoMpi

\* The script ends with an exception raised at a line.
Raise(exception, line) ==
    [pc |-> exception, line |-> line, cube |-> tdpdf.cube]

\* Lines 81-137.
SetUp ==
    /\ tdpdf.pc = "cube"
    /\ LET sample == unmaskedSample(tdpdf.cube.data, tdpdf.cube.ntimes)
           size == Cardinality(DOMAIN sample)
           num_times == tdpdf.cube.ntimes
           num_locs == size \div num_times
           num_wins == NumWins(num_times)
       IN  tdpdf' =
               IF size = 0 THEN Raise("ValueError", 104)
               ELSE IF num_locs * num_times # size
               THEN Raise("ValueError", 122)
               ELSE IF num_wins < 0 THEN Raise("ValueError", 136)
               ELSE [pc |-> "loop",
                     cube |-> tdpdf.cube,
                     num_times |-> num_times,
                     sample_min |-> Min({sample[i] : i \in DOMAIN sample}),
                     sample_max |-> Max({sample[i] : i \in DOMAIN sample}),
                     num_locs |-> num_locs,
                     samp2D |-> reshape(sample, num_locs, num_times),
                     num_wins |-> num_wins,
                     win |-> 0,
                     slices |-> <<>>,
                     tdpdf_y |-> <<>>,
                     tdpdf_x |-> <<>>]
    /\ UNCHANGED <<parent, sub, regions, report, grid, kld, season, mpi>>

\* Lines 139-147, one iteration: window win (0-based) fills row win of
\* tdpdf_y and tdpdf_x, kept here at index win + 1.
Window ==
    /\ tdpdf.pc = "loop"
    /\ tdpdf.win < tdpdf.num_wins
    /\ LET s == WindowSlice(tdpdf.win)
           win_sample == sliceColumns(tdpdf.samp2D, tdpdf.num_locs,
                                      tdpdf.num_times, s.start, s.stop)
           h == histogram(win_sample, num_bins,
                          <<tdpdf.sample_min, tdpdf.sample_max>>)
       IN  tdpdf' = [tdpdf EXCEPT
                        !.win = @ + 1,
                        !.slices = Append(@,
                            [start |-> s.start, stop |-> s.stop,
                             size |-> Cardinality(DOMAIN win_sample)]),
                        !.tdpdf_y = Append(@, h.y),
                        !.tdpdf_x = Append(@, h.x)]
    /\ UNCHANGED <<parent, sub, regions, report, grid, kld, season, mpi>>

\* Lines 149-161, after the loop: bin_edges = tdpdf_x[0,:-1].
Finish ==
    /\ tdpdf.pc = "loop"
    /\ tdpdf.win >= tdpdf.num_wins
    /\ tdpdf' = IF tdpdf.num_wins = 0 THEN Raise("IndexError", 161)
                ELSE [tdpdf EXCEPT !.pc = "done"]
    /\ UNCHANGED <<parent, sub, regions, report, grid, kld, season, mpi>>

NextTdpdf == SetUp \/ Window \/ Finish

SpecTdpdf == InitTdpdf /\ [][NextTdpdf]_vars

\* The script is past the set-up of the windows.
WindowsSetUp == tdpdf.pc \in {"loop", "done"}

C19_WindowsAreFull ==
    WindowsSetUp =>
        \A w \in 1..Len(tdpdf.slices) :
            /\ tdpdf.slices[w].start = win_slide * (w - 1)
            /\ tdpdf.slices[w].stop = win_slide * (w - 1) + win_size
            /\ 0 <= tdpdf.slices[w].start
            /\ tdpdf.slices[w].stop <= tdpdf.num_times
            /\ tdpdf.slices[w].size = win_size * tdpdf.num_locs

C19_WindowsAreFullAndSeriesShortOfOneIsSafe ==
    /\ C19_WindowsAreFull
    /\ tdpdf.pc # "none" /\ tdpdf.cube.ntimes < win_size
          => /\ ~(tdpdf.pc = "ValueError" /\ tdpdf.line = 136)
             /\ ~(tdpdf.pc = "IndexError" /\ tdpdf.line = 161)
             /\ WindowsSetUp => tdpdf.slices = <<>>

(***************************************************************************)
(* C20.  All the windowed densities of a season are computed with the same *)
(* range and the same number of bins N = num_bins: the bin-edge arrays of  *)
(* any two windows are identical and have N + 1 edges, from the least to   *)
(* the greatest sample of the season, and every density array has N        *)
(* values.                                                                 *)
(***************************************************************************)
C20_SameBinsForAllWindows ==
    WindowsSetUp =>
        \A v, w \in 1..Len(tdpdf.tdpdf_x) :
            /\ tdpdf.tdpdf_x[v] = tdpdf.tdpdf_x[w]
            /\ DOMAIN tdpdf.tdpdf_x[w] = 0..num_bins
            /\ DOMAIN tdpdf.tdpdf_y[w] = 0..(num_bins - 1)
            /\ tdpdf.sample_min < tdpdf.sample_max
                  => /\ tdpdf.tdpdf_x[w][0] = num_bins * tdpdf.sample_min
                     /\ tdpdf.tdpdf_x[w][num_bins] = num_bins * tdpdf.sample_max

\* Two windows whose samples span different ranges: the first holds one
\* value only, the second holds both values of the season.
C20_Witness ==
    /\ tdpdf.pc = "done"
    /\ Len(tdpdf.tdpdf_y) >= 2
    /\ tdpdf.sample_min < tdpdf.sample_max
    /\ Cardinality({b \in DOMAIN tdpdf.tdpdf_y[1] : tdpdf.tdpdf_y[1][b] > 0}) = 1
    /\ Cardinality({b \in DOMAIN tdpdf.tdpdf_y[2] : tdpdf.tdpdf_y[2][b] > 0}) = 2

(***************************************************************************)
(* Apps/tdpdfs-From-DataCubes.py: compute_KLD and the matrix of            *)
(* time-shifted divergences.                                               *)
(*                                                                         *)
(* Densities and bin widths are exact rationals <<n, d>> with d > 0 in     *)
(* lowest terms; <<n, 0>> is the result of a division by zero (inf or nan  *)
(* in floating point).  log2 is not evaluated: a divergence is kept as the *)
(* formal sum of its terms coef * log2(arg), one per bin evaluated, and    *)
(* only the sign of each term (log2(arg) > 0 exactly when arg > 1) is      *)
(* used.  Floating-point rounding, overflow and underflow are not          *)
(* modelled.                                                               *)
(***************************************************************************)
Abs(n) == IF n < 0 THEN -n ELSE n

RECURSIVE Gcd(_, _)
Gcd(a, b) == IF b = 0 THEN a ELSE Gcd(b, a % b)

\* The rational n / d in lowest terms, d # 0.
Rat(n, d) ==
    LET g == Gcd(Abs(n), Abs(d))
    IN  IF d < 0 THEN <<-(n \div g), -(d \div g)>> ELSE <<n \div g, d \div g>>

radd(x, y) == Rat(x[1] * y[2] + y[1] * x[2], x[2] * y[2])

\* Products cancel across the factors first, so that no intermediate
\* number is larger than the result needs.
rmul(x, y) ==
    LET g1 == Gcd(Abs(x[1]), y[2])
        g2 == Gcd(Abs(y[1]), x[2])
    IN  Rat((x[1] \div g1) * (y[1] \div g2), (x[2] \div g2) * (y[2] \div g1))

\* x / y; a zero divisor gives <<sign, 0>>.
rdiv(x, y) ==
    IF y[1] = 0
    THEN <<IF x[1] > 0 THEN 1 ELSE IF x[1] < 0 THEN -1 ELSE 0, 0>>
    ELSE rmul(x, IF y[1] < 0 THEN <<-y[2], -y[1]>> ELSE <<y[2], y[1]>>)

\* x <= 0.
NonPositive(x) == x[1] <= 0

\* Faulty variants of compute_KLD.  NoSkipQ: only the bins with p <= 0 are
\* skipped.
compute_KLDNoSkipQ(p, q, dx) ==
    IF DOMAIN p # DOMAIN q THEN [result |-> "SystemExit"]
    ELSE [result |-> "return",
          kld |-> [i \in {b \in DOMAIN p : ~NonPositive(p[b])} |->
                      [coef |-> rmul(p[i], dx), arg |-> rdiv(p[i], q[i])]]]

\* NoRatio: the logarithm is taken of p instead of p / q.
compute_KLDNoRatio(p, q, dx) ==
    IF DOMAIN p # DOMAIN q THEN [result |-> "SystemExit"]
    ELSE [result |-> "return",
          kld |-> [i \in {b \in DOMAIN p :
                              ~(NonPositive(p[b]) \/ NonPositive(q[b]))} |->
                      [coef |-> rmul(p[i], dx), arg |-> p[i]]]]

\* compute_KLD(p, q, dx), lines 16-36: the sum over the bins i that are not
\* skipped by line 32 of p[i] * log2(p[i] / q[i]) * dx, kept as the family
\* of its terms; sys.exit() when the sizes differ.
compute_KLD(p, q, dx) ==
    IF DOMAIN p # DOMAIN q THEN [result |-> "SystemExit"]
    ELSE [result |-> "return",
          kld |-> [i \in {b \in DOMAIN p :
                              ~(NonPositive(p[b]) \/ NonPositive(q[b]))} |->
                      [coef |-> rmul(p[i], dx), arg |-> rdiv(p[i], q[i])]]]

\* The value of a term coef * log2(arg): "undefined" when arg is not a
\* positive number, else its sign.
TermSign(t) ==
    IF t.arg[2] = 0 \/ t.arg[1] <= 0 \/ t.coef[2] = 0 THEN "undefined"
    ELSE IF t.arg[1] = t.arg[2] \/ t.coef[1] = 0 THEN "zero"
    ELSE IF (t.arg[1] > t.arg[2]) = (t.coef[1] > 0) THEN "positive"
    ELSE "negative"

\* What the signs of the terms tell of a divergence: "zero" when every
\* term is 0, "positive" or "negative" when the terms that are not 0 agree
\* in sign, "mixed" when they do not (the sum is then not determined by
\* the signs).
Sign(terms) ==
    LET signs == {TermSign(terms[i]) : i \in DOMAIN terms} \ {"zero"}
    IN  IF "undefined" \in signs THEN "undefined"
        ELSE IF signs = {} THEN "zero"
        ELSE IF signs = {"positive"} THEN "positive"
        ELSE IF signs = {"negative"} THEN "negative"
        ELSE "mixed"

\* Line 199: p = (p + 1.e-8) / (1. + p.size * 1.e-8); 1.e-8 is
\* 1 / InverseEpsilon.
InverseEpsilon == 100000000

smooth(p) ==
    LET size == Cardinality(DOMAIN p)
        norm == radd(<<1, 1>>, Rat(size, InverseEpsilon))
    IN  [b \in DOMAIN p |-> rdiv(radd(p[b], <<1, InverseEpsilon>>), norm)]

\* Faulty variant of the matrix loop: the density of window j is smoothed
\* too.  kld_values as a function on pairs <<i, j>>.
KldValuesBothSmoothed(tdpdf_y, num_wins, bin_width) ==
    [ij \in (0..(num_wins - 1)) \X (0..(num_wins - 1)) |->
        compute_KLD(smooth(tdpdf_y[ij[1]]), smooth(tdpdf_y[ij[2]]),
                    bin_width).kld]

\* Lines 192-202: kld_values[i, j] = compute_KLD(p, q, bin_width) with p the
\* smoothed density of window i (line 199) and q the density of window j as
\* the histogram gave it (line 201).
KldValues(tdpdf_y, num_wins, bin_width) ==
    [ij \in (0..(num_wins - 1)) \X (0..(num_wins - 1)) |->
        compute_KLD(smooth(tdpdf_y[ij[1]]), tdpdf_y[ij[2]], bin_width).kld]

\* Inputs.  Densities for compute_KLD include a negative value; the rows of
\* tdpdf_y are what a histogram returns, so they are not negative.
MaxBins == 2
MaxWins == 2
Densities == {<<0, 1>>, <<1, 2>>, <<2, 1>>, <<-1, 1>>}
HistogramDensities == {<<0, 1>>, <<1, 2>>, <<2, 1>>}
BinWidths == {<<1, 1>>, <<1, 2>>}
DensityArrays(densities) ==
    UNION {[0..(n - 1) -> densities] : n \in 1..MaxBins}
TdpdfYs ==
    UNION {[0..(w - 1) -> [0..(n - 1) -> HistogramDensities]] :
              <<w, n>> \in (1..MaxWins) \X (1..MaxBins)}

InitKld ==
    /\ parent = Region(ScenarioHeader, ScenarioMask)
    /\ sub = NoCall
    /\ regions = NoRegions
    /\ report = NoReport
    /\ grid = NoGrid
    /\ tdpdf = NoRun
    /\ season = NoSeason
    /\ mpi = NoMpi
    /\ \/ \E p \in DensityArrays(Densities), q \in DensityArrays(Densities),
             dx \in BinWidths :
               kld = [op |-> "input", p |-> p, q |-> q, dx |-> dx]
       \/ \E y \in TdpdfYs, dx \in BinWidths :
               kld = [op |-> "tdpdf_y", tdpdf_y |-> y, bin_width |-> dx]

\* A call compute_KLD(p, q, dx).
CallComputeKLD ==
    /\ kld.op = "input"
    /\ kld' = [op |-> "compute_KLD", p |-> kld.p, q |-> kld.q, dx |-> kld.dx,
               out |-> compute_KLD(kld.p, kld.q, kld.dx)]
    /\ UNCHANGED <<parent, sub, regions, report, grid, tdpdf, season, mpi>>

\* The loop of lines 192-202 over all pairs of windows.
BuildKldValues ==
    /\ kld.op = "tdpdf_y"
    /\ LET num_wins == Cardinality(DOMAIN kld.tdpdf_y)
       IN  kld' = [op |-> "kld_values", tdpdf_y |-> kld.tdpdf_y,
                   bin_width |-> kld.bin_width, num_wins |-> num_wins,
                   kld_values |-> KldValues(kld.tdpdf_y, num_wins,
                                            kld.bin_width)]
    /\ UNCHANGED <<parent, sub, regions, report, grid, tdpdf, season, mpi>>

NextKld == CallComputeKLD \/ BuildKldValues

SpecKld == InitKld /\ [][NextKld]_vars

\* Vocabulary.
KLDReturned == kld.op = "compute_KLD" /\ kld.out.result = "return"
MatrixBuilt == kld.op = "kld_values"
BothPositive(b) == kld.p[b][1] > 0 /\ kld.q[b][1] > 0

\* C21: compute_KLD(p, q, dx) adds the term p[b] * log2(p[b] / q[b]) * dx
\* for exactly the bins b where both p[b] > 0 and q[b] > 0; a bin where
\* either density is zero or negative contributes nothing; in every term
\* the divisor and the argument of the logarithm are positive, so the
\* result is always a defined number.
C21_KLDSumsOverPositiveBins ==
    KLDReturned =>
        /\ DOMAIN kld.out.kld = {b \in DOMAIN kld.p : BothPositive(b)}
        /\ \A b \in DOMAIN kld.out.kld :
              /\ kld.out.kld[b].coef = rmul(kld.p[b], kld.dx)
              /\ kld.out.kld[b].arg = rdiv(kld.p[b], kld.q[b])
              /\ kld.q[b][1] # 0
              /\ kld.out.kld[b].arg[2] > 0 /\ kld.out.kld[b].arg[1] > 0
        /\ Sign(kld.out.kld) # "undefined"

\* A call where one bin has p > 0 and q = 0 and another bin is evaluated.
C21_Witness ==
    /\ KLDReturned
    /\ \E b \in DOMAIN kld.p : kld.p[b][1] > 0 /\ kld.q[b][1] = 0
    /\ \E b \in DOMAIN kld.p : BothPositive(b) /\ kld.p[b] # kld.q[b]

\* C22: for every density p, bins that are zero included, and every dx,
\* compute_KLD(p, p, dx) is 0: every term evaluated is a multiple of
\* log2(1).
C22_SelfDivergenceIsZero ==
    (kld.op = "compute_KLD" /\ kld.p = kld.q) =>
        /\ kld.out.result = "return"
        /\ \A b \in DOMAIN kld.out.kld : kld.out.kld[b].arg = <<1, 1>>
        /\ Sign(kld.out.kld) = "zero"

\* compute_KLD(p, p, dx) for a p with a zero bin and a bin that is neither
\* 0 nor 1.
C22_Witness ==
    /\ KLDReturned /\ kld.p = kld.q
    /\ \E b \in DOMAIN kld.p : kld.p[b][1] = 0
    /\ \E b \in DOMAIN kld.p : kld.p[b] = <<2, 1>>

\* The signs of the terms determine the value of a divergence up to
\* magnitude unless they are mixed.
Determined(terms) == Sign(terms) \in {"zero", "positive", "negative"}

\* Two divergences that the signs of their terms do not tell apart.
MayBeEqual(a, b) == (Determined(a) /\ Determined(b)) => Sign(a) = Sign(b)

Window_y(i) == kld.tdpdf_y[i]
WindowPairs == (0..(kld.num_wins - 1)) \X (0..(kld.num_wins - 1))

\* C23: in the divergence matrix smoothing is never mixed with truncation:
\* every entry (i, j) is computed either from the two densities as the
\* histogram gave them or from the two densities both smoothed, and
\* therefore every diagonal entry is 0 (stated here in the weaker form
\* that no diagonal entry is of definite sign).
C23_SmoothingNotMixedAndDiagonalZero ==
    MatrixBuilt =>
        /\ \A ij \in WindowPairs :
              \/ kld.kld_values[ij] =
                    compute_KLD(Window_y(ij[1]), Window_y(ij[2]),
                                kld.bin_width).kld
              \/ kld.kld_values[ij] =
                    compute_KLD(smooth(Window_y(ij[1])),
                                smooth(Window_y(ij[2])), kld.bin_width).kld
        /\ \A i \in 0..(kld.num_wins - 1) :
              Sign(kld.kld_values[<<i, i>>]) \in {"zero", "mixed"}

\* What the code does instead: p smoothed, q not, and a diagonal entry is
\* positive where the density is below 1 / size in every occupied bin and
\* negative where it is above.
C23_PSmoothedQTruncated ==
    MatrixBuilt =>
        \A ij \in WindowPairs :
            kld.kld_values[ij] =
                compute_KLD(smooth(Window_y(ij[1])), Window_y(ij[2]),
                            kld.bin_width).kld

\* C24: the matrix has shape (numWindows, numWindows) and its entry
\* (i, j) is the divergence from the density of window i (as p) to the
\* density of window j (as q), for every ordered pair, (i, j) and (j, i)
\* each computed on its own (equality of two divergences is stated in the
\* weaker form that the signs of their terms do not tell them apart).
C24_EntryIsDivergenceFromIToJ ==
    MatrixBuilt =>
        /\ DOMAIN kld.kld_values = WindowPairs
        /\ kld.num_wins = Cardinality(DOMAIN kld.tdpdf_y)
        /\ \A ij \in WindowPairs :
              MayBeEqual(kld.kld_values[ij],
                         compute_KLD(Window_y(ij[1]), Window_y(ij[2]),
                                     kld.bin_width).kld)

\* Shape and orientation alone: every ordered pair has an entry, row i
\* supplies p and column j supplies q (the bins evaluated and the divisor
\* of every term are those of the pair taken in this order).
C24_ShapeAndOrientation ==
    MatrixBuilt =>
        /\ DOMAIN kld.kld_values = WindowPairs
        /\ \A ij \in WindowPairs :
              /\ DOMAIN kld.kld_values[ij] =
                    {b \in DOMAIN Window_y(ij[2]) : Window_y(ij[2])[b][1] > 0}
              /\ \A b \in DOMAIN kld.kld_values[ij] :
                    kld.kld_values[ij][b].arg =
                        rdiv(smooth(Window_y(ij[1]))[b], Window_y(ij[2])[b])

\* A matrix whose entries (0, 1) and (1, 0) differ.
C24_Asymmetric ==
    /\ MatrixBuilt /\ kld.num_wins = 2
    /\ Sign(kld.kld_values[<<0, 1>>]) = "positive"
    /\ Sign(kld.kld_values[<<1, 0>>]) = "negative"

(***************************************************************************)
(* Child masks against the parent's mask (specification Spec).             *)
(***************************************************************************)
\* The parent cell under the child's cell rc.
ParentCell(rc) ==
    <<sub.obj.parentLatStart + rc[1], sub.obj.parentLonStart + rc[2]>>

\* C25: for every SubRegion constructed, automatic or from a bounding box,
\* and every category id k, the parent's missing-data flag included, every
\* unmasked cell of the child lies on an unmasked cell of the parent
\* (stated for the parents a Region construction yields, whose latitudes
\* descend).
C25_ChildUnmaskedWithinParentUnmasked ==
    (Constructed /\ Descending) =>
        \A rc \in DOMAIN sub.obj.topoMask.mask :
            (~sub.obj.topoMask.mask[rc]) =>
                ~parent.topoMask.mask[ParentCell(rc)]

\* The same for the ids that are not the missing-data flag.
C25_HoldsForCategoryIDs ==
    (Constructed /\ sub.RegFlag # parent.missingFlag) =>
        \A rc \in DOMAIN sub.obj.topoMask.mask :
            (~sub.obj.topoMask.mask[rc]) =>
                ~parent.topoMask.mask[ParentCell(rc)]

(***************************************************************************)
(* The rows of samp2D (specification SpecTdpdf).                           *)
(***************************************************************************)
\* The origin of samp2D[r, c]: element r * num_times + c of the sample.
Origin(r, c) ==
    sampleOrigin(tdpdf.cube.data, tdpdf.cube.ntimes)[
        r * tdpdf.num_times + c + 1]

\* No cell of the cube is missing at some times and observed at others.
MasksConstantInTime ==
    \A k \in DOMAIN tdpdf.cube.data :
        \A t \in 0..(tdpdf.cube.ntimes - 1) :
            tdpdf.cube.data[k].mask[t] = tdpdf.cube.data[k].mask[0]

RowsAreSeries ==
    \A r \in 0..(tdpdf.num_locs - 1) :
        \A c \in 0..(tdpdf.num_times - 1) :
            /\ Origin(r, c).time = c
            /\ Origin(r, c).loc = Origin(r, 0).loc

WindowsHoldTheirTimes ==
    \A w \in 0..(tdpdf.num_wins - 1) :
        \A r \in 0..(tdpdf.num_locs - 1) :
            \A c \in WindowSlice(w).start..(WindowSlice(w).stop - 1) :
                /\ WindowSlice(w).start <= Origin(r, c).time
                /\ Origin(r, c).time < WindowSlice(w).stop

\* C26: whenever the reshape to (num_locs, num_times) succeeds, cubes with
\* a cell that is missing at some times only included, row r of samp2D
\* holds the samples of one cell in the order of time, and every value in
\* the columns of window w was observed at a time index in
\* [win_slide * w, win_slide * w + win_size).
C26_RowsAreSeriesOfOneLocation ==
    (WindowsSetUp /\ tdpdf.win = 0 /\ tdpdf.num_wins >= 1) =>
        RowsAreSeries /\ WindowsHoldTheirTimes

\* The same for the cubes whose cells are each missing at all times or at
\* none.
C26_HoldsForMasksConstantInTime ==
    (WindowsSetUp /\ tdpdf.win = 0 /\ MasksConstantInTime) =>
        RowsAreSeries /\ WindowsHoldTheirTimes

\* A run in which a window is fed a value observed outside its times.
C26_SampleFromOutsideWindow ==
    /\ WindowsSetUp /\ tdpdf.win = 0 /\ tdpdf.num_wins >= 1
    /\ ~WindowsHoldTheirTimes

(***************************************************************************)
(* awapIO.filterBySeason, as DataCube.__init__ calls it for a season.      *)
(*                                                                         *)
(* A file name is modelled by its date stamp, the number YYYYMMDD that     *)
(* getYMD finds in it; lists are sequences.                                *)
(***************************************************************************)
MonthNumToAbbr ==
    <<"jan", "feb", "mar", "apr", "may", "jun",
      "jul", "aug", "sep", "oct", "nov", "dec">>

MonthAbbrToNum(abbr) == CHOOSE m \in 1..12 : MonthNumToAbbr[m] = abbr

SeasonDict ==
    [mam |-> <<"mar", "apr", "may">>, jja |-> <<"jun", "jul", "aug">>,
     son |-> <<"sep", "oct", "nov">>, djf |-> <<"dec", "jan", "feb">>]

seasonToMonths(SeasonStr) == SeasonDict[SeasonStr]

\* int(dateString[-4:-2]) of the eight digits YYYYMMDD.
getMonth(FileName) == (FileName \div 100) % 100

getMonthAbbr(FileName) == MonthNumToAbbr[getMonth(FileName)]

filterByMonthNum(FileList, MonthNum) ==
    LET nominated(file) == getMonth(file) = MonthNum
    IN  SelectSeq(FileList, nominated)

filterByMonthName(FileList, Month) ==
    filterByMonthNum(FileList, MonthAbbrToNum(Month))

\* sorted(FileList, key=getYMD): ascending by date stamp, files of equal
\* stamp in their order in the list.
sortByDate(FileList) ==
    LET n == Len(FileList)
        before(j, i) ==
            \/ FileList[j] < FileList[i]
            \/ FileList[j] = FileList[i] /\ j < i
        place(i) == 1 + Cardinality({j \in 1..n : before(j, i)})
    IN  [k \in 1..n |-> FileList[CHOOSE i \in 1..n : place(i) = k]]

\* list[start:stop] for a list indexed from 0 as in the source, start
\* negative counting from the end; the result is a sequence.
listSlice(list, start, stop) ==
    LET n == Len(list)
        from == IF start < 0 THEN Max({n + start, 0}) ELSE Min({start, n})
        to == IF stop < 0 THEN Max({n + stop, 0}) ELSE Min({stop, n})
    IN  SubSeq(list, from + 1, to)

\* [getMonthAbbr(file) for file in files]
monthRun(files) == [i \in 1..Len(files) |-> getMonthAbbr(files[i])]

\* A local variable that was never assigned, and one that holds a value.
Unbound == [bound |-> FALSE]
Bound(value) == [bound |-> TRUE, value |-> value]

\* Lines 1128-1133: for offset in range(0, len(month_files) - 3), the
\* first offset whose three files have the months of the season.
firstInd(month_files, month_list) ==
    LET hits == {offset \in 0..(Len(month_files) - 4) :
                    monthRun(listSlice(month_files, offset, offset + 3))
                        = month_list}
    IN  IF hits = {} THEN Unbound ELSE Bound(Min(hits))

\* Lines 1135-1140: for backset in range(3, len(month_files)), the first
\* backset whose three files have the months of the season.
lastInd(month_files, month_list) ==
    LET n == Len(month_files)
        hits == {backset \in 3..(n - 1) :
                    monthRun(listSlice(month_files, -backset,
                                       n - backset + 3)) = month_list}
    IN  IF hits = {} THEN Unbound ELSE Bound(n - Min(hits) + 3)

\* filterBySeason(FileList, SeasonName), lines 1097-1142.  Reading a local
\* variable that no iteration assigned raises UnboundLocalError.
filterBySeason(FileList, SeasonName) ==
    LET month_list == seasonToMonths(SeasonName)
        month_files ==
            sortByDate(filterByMonthName(FileList, month_list[1])
                       \o filterByMonthName(FileList, month_list[2])
                       \o filterByMonthName(FileList, month_list[3]))
        first_ind == firstInd(month_files, month_list)
        last_ind == lastInd(month_files, month_list)
    IN  IF ~first_ind.bound
        THEN [result |-> "UnboundLocalError", name |-> "first_ind",
              month_files |-> month_files]
        ELSE IF ~last_ind.bound
        THEN [result |-> "UnboundLocalError", name |-> "last_ind",
              month_files |-> month_files]
        ELSE [result |-> "return", month_files |-> month_files,
              files |-> listSlice(month_files, first_ind.value,
                                  last_ind.value)]

\* Inputs: the monthly files of a directory, by date stamp, and the
\* seasons asked for.  DataCube.__init__ passes the list sorted by date
\* (line 82 of dataCube.py).
MaxFiles == 6
FileStamps ==
    {19991201, 20000101, 20000201, 20000301, 20000601, 20000701, 20000801,
     20001201, 20010101, 20010201}
SeasonNames == {"djf", "jja"}

\* The files of a set as the list sorted by date.
RECURSIVE sortedList(_)
sortedList(files) ==
    IF files = {} THEN <<>>
    ELSE <<Min(files)>> \o sortedList(files \ {Min(files)})

FileLists ==
    {sortedList(files) :
        files \in {F \in SUBSET FileStamps : Cardinality(F) <= MaxFiles}}

InitSeason ==
    /\ parent = Region(ScenarioHeader, ScenarioMask)
    /\ sub = NoCall
    /\ regions = NoRegions
    /\ report = NoReport
    /\ grid = NoGrid
    /\ tdpdf = NoRun
    /\ kld = NoKld
    /\ mpi = NoMpi
    /\ \E FileList \in FileLists, SeasonName \in SeasonNames :
          season = [op |-> "input", FileList |-> FileList,
                    SeasonName |-> SeasonName]

\* DataCube.__init__, lines 95-96 of dataCube.py:
\* sample_files = aio.filterBySeason(sample_files, CycleFilter).
CallFilterBySeason ==
    /\ season.op = "input"
    /\ season' = [op |-> "filterBySeason", FileList |-> season.FileList,
                  SeasonName |-> season.SeasonName,
                  out |-> filterBySeason(season.FileList, season.SeasonName)]
    /\ UNCHANGED <<parent, sub, regions, report, grid, tdpdf, kld, mpi>>

NextSeason == CallFilterBySeason

SpecSeason == InitSeason /\ [][NextSeason]_vars

\* Vocabulary: the offsets (from 0) in the season's files at which a run of
\* three files with the months of the season, in order, starts.
Filtered == season.op = "filterBySeason"
SeasonMonths == seasonToMonths(season.SeasonName)
SeasonFiles ==
    LET inSeason(file) ==
            \E i \in 1..3 : getMonthAbbr(file) = SeasonMonths[i]
    IN  SelectSeq(season.FileList, inSeason)
Runs ==
    {o \in 0..(Len(SeasonFiles) - 3) :
        /\ getMonthAbbr(SeasonFiles[o + 1]) = SeasonMonths[1]
        /\ getMonthAbbr(SeasonFiles[o + 2]) = SeasonMonths[2]
        /\ getMonthAbbr(SeasonFiles[o + 3]) = SeasonMonths[3]}

\* C27: given a list of monthly files that holds at least one run of three
\* consecutive files with the season's three months in order (a list that
\* is exactly one such run included), filterBySeason returns the files of
\* those months, sorted by date, from the start of the first run to the
\* end of the last run, and does not fail on an undefined first or last
\* index.
C27_FilterBySeasonReturnsRuns ==
    (Filtered /\ Runs # {}) =>
        /\ season.out.result = "return"
        /\ season.out.files = SubSeq(SeasonFiles, Min(Runs) + 1, Max(Runs) + 3)

\* Whenever filterBySeason returns, it returns the files from the first
\* run to the last.
C27_ReturnedFilesAreTheRuns ==
    (Filtered /\ season.out.result = "return") =>
        /\ Runs # {}
        /\ season.out.files = SubSeq(SeasonFiles, Min(Runs) + 1, Max(Runs) + 3)

\* It returns exactly when a run starts at an offset before the last three
\* files and a run starts after the first file.
C27_ReturnsIffRunsAwayFromBothEnds ==
    Filtered =>
        ((season.out.result = "return") <=>
            /\ \E o \in Runs : o <= Len(SeasonFiles) - 4
            /\ \E o \in Runs : o >= 1)

\* A return with two runs.
C27_WitnessReturn ==
    /\ Filtered /\ season.out.result = "return"
    /\ Cardinality(Runs) = 2

(***************************************************************************)
(* The parallel apps: Apps/parOzFieldPlots.py, Apps/parRegionFieldPlots.py *)
(* and Apps/parOzNationalMovies.py, run as numPEs MPI processes (ranks).   *)
(*                                                                         *)
(* Every rank runs the same script.  The part of a script up to its loop   *)
(* over the rank's fields is kept as the sequence of its instructions that *)
(* touch the output directories, the barriers and the decomposition; a     *)
(* rank's position is the index pc of its next instruction.  A directory   *)
(* is the sequence of the names on its path below and including the output *)
(* root.                                                                   *)
(***************************************************************************)
rootID == 0
MaxPEs == 3
MaxFields == 4

\* jobConfig['fieldTags'] and jobConfig['fieldTagsToDirName'].
FieldTags == <<"rain", "tmax", "tmin", "vprp", "solar", "pcr_rain">>
fieldTagsToDirName ==
    [rain |-> "Rainfall", tmax |-> "MaxTemp", tmin |-> "MinTemp",
     vprp |-> "VapourPressure", solar |-> "Solar", pcr_rain |-> "RainfallPCR"]

Apps == {"parOzFieldPlots", "parRegionFieldPlots", "parOzNationalMovies"}

\* jobConfig['outputImageRoot'] (jobConfig['outputMovieRoot'] in the movie
\* app) and what is found at that path when the run starts.
outputImageRoot == <<"outputImageRoot">>
RootStates == {"absent", "writeable", "unwriteable", "file"}

\* The sub-regions of parRegionFieldPlots, by str(int(sReg.regionID)), and
\* its region type directory.
subRegions == <<"1">>
srType == "State"

\* dirTools.isWriteableDirectory: the path exists, is a directory and is
\* writeable.  Directories made by the run are writeable.
isWriteableDirectory(fs, Directory) ==
    IF Directory = outputImageRoot THEN fs.root = "writeable"
    ELSE Directory \in fs.dirs

\* os.path.isdir
isdir(fs, Directory) ==
    IF Directory = outputImageRoot
    THEN fs.root \in {"writeable", "unwriteable"}
    ELSE Directory \in fs.dirs

\* dirTools.safeMakeDir: nothing is done when the path exists (True for a
\* directory, False for a file; no caller looks at the result); otherwise
\* os.makedirs makes the directory and its missing ancestors, and raises
\* OSError below a file or an unwriteable directory.
safeMakeDir(fs, Directory) ==
    IF Directory = outputImageRoot
    THEN [raised |-> FALSE,
          fs |-> IF fs.root = "absent" THEN [fs EXCEPT !.root = "writeable"]
                 ELSE fs]
    ELSE IF Directory \in fs.dirs THEN [raised |-> FALSE, fs |-> fs]
    ELSE IF fs.root \in {"file", "unwriteable"}
    THEN [raised |-> TRUE, fs |-> fs]
    ELSE [raised |-> FALSE,
          fs |-> [root |-> "writeable",
                  dirs |-> fs.dirs \cup
                      {SubSeq(Directory, 1, n) : n \in 2..Len(Directory)}]]

\* Instructions.  who is "root" for the ones inside if myRank == rootID.
MakeDir(Directory, line) ==
    [op |-> "safeMakeDir", dir |-> Directory, who |-> "root",
     fail |-> "OSError", line |-> line]
Require(Directory, who, fail, line) ==
    [op |-> "isWriteableDirectory", dir |-> Directory, who |-> who,
     fail |-> fail, line |-> line]
BarrierAt(line) ==
    [op |-> "Barrier", dir |-> <<>>, who |-> "all", fail |-> "none",
     line |-> line]
DecomposeAt(line) ==
    [op |-> "decompose", dir |-> <<>>, who |-> "all", fail |-> "SystemExit",
     line |-> line]
FieldLoopAt(line) ==
    [op |-> "for field in myFieldReqs", dir |-> <<>>, who |-> "all",
     fail |-> "IOError", line |-> line]

RECURSIVE flatten(_)
flatten(lists) ==
    IF lists = <<>> THEN <<>> ELSE Head(lists) \o flatten(Tail(lists))

\* parOzFieldPlots.py, lines 123-180.  The print of line 143 names
\* jobCofig, which is not defined: NameError, before the sys.exit() of
\* line 144 is reached.
parOzFieldPlots(fieldReqs) ==
    <<MakeDir(outputImageRoot, 130)>>
    \o flatten([i \in 1..Len(fieldReqs) |->
          LET outputDir ==
                  Append(outputImageRoot, fieldTagsToDirName[fieldReqs[i]])
          IN  <<Require(outputImageRoot, "root", "NameError", 139),
                MakeDir(outputDir, 141),
                MakeDir(Append(outputDir, "Thumbnail"), 147),
                MakeDir(Append(outputDir, "Full"), 149)>>])
    \o <<BarrierAt(151), DecomposeAt(157), FieldLoopAt(180)>>

\* parRegionFieldPlots.py, lines 80-254.
parRegionFieldPlots(fieldReqs) ==
    LET outputDir == Append(outputImageRoot, srType)
    IN  <<MakeDir(outputImageRoot, 81), BarrierAt(83),
          Require(outputImageRoot, "all", "NameError", 175),
          MakeDir(outputDir, 177), BarrierAt(182)>>
        \o flatten([s \in 1..Len(subRegions) |->
              LET srDir == Append(outputDir, subRegions[s])
              IN  <<MakeDir(srDir, 194), BarrierAt(195)>>
                  \o flatten([i \in 1..Len(fieldReqs) |->
                        LET srFieldDir ==
                                Append(srDir,
                                       fieldTagsToDirName[fieldReqs[i]])
                        IN  <<Require(srDir, "all", "SystemExit", 203),
                              MakeDir(srFieldDir, 205), BarrierAt(209),
                              MakeDir(Append(srFieldDir, "Thumbnail"), 217),
                              MakeDir(Append(srFieldDir, "Full"), 218),
                              BarrierAt(219)>>])])
        \o <<DecomposeAt(239), FieldLoopAt(254)>>

\* parOzNationalMovies.py, lines 64-92.
parOzNationalMovies(fieldReqs) ==
    <<MakeDir(outputImageRoot, 70), BarrierAt(72), DecomposeAt(78),
      FieldLoopAt(92)>>

Program(app, fieldReqs) ==
    IF app = "parOzFieldPlots" THEN parOzFieldPlots(fieldReqs)
    ELSE IF app = "parRegionFieldPlots" THEN parRegionFieldPlots(fieldReqs)
    ELSE parOzNationalMovies(fieldReqs)

\* The directories into which the loop over a rank's fields writes the
\* images (the movie) of a field.
ImageDirs(app, field) ==
    IF app = "parOzFieldPlots"
    THEN {outputImageRoot \o <<fieldTagsToDirName[field], kind>> :
             kind \in {"Thumbnail", "Full"}}
    ELSE IF app = "parRegionFieldPlots"
    THEN {outputImageRoot
            \o <<srType, subRegions[s], fieldTagsToDirName[field], kind>> :
             s \in 1..Len(subRegions), kind \in {"Thumbnail", "Full"}}
    ELSE {outputImageRoot}

\* Faulty variant of the decomposition: each slice runs one field into
\* the next.
myFieldReqsOverlapping(fieldReqs, myRank, numPEs) ==
    LET numFields == Len(fieldReqs)
        quotient == numFields \div numPEs
        remainder == numFields % numPEs
        myStart == myRank * quotient
        myStop == myStart + quotient + 1
    IN  IF remainder = 0
        THEN [exit |-> FALSE, myStart |-> myStart, myStop |-> myStop,
              myFieldReqs |-> listSlice(fieldReqs, myStart, myStop)]
        ELSE [exit |-> TRUE]

\* Domain decomposition over field requests (parOzFieldPlots.py lines
\* 157-166, parRegionFieldPlots.py 239-248, parOzNationalMovies.py 78-87):
\* fieldReqs[myStart:myStop], or sys.exit() when numPEs does not divide
\* the number of fields.
myFieldReqs(fieldReqs, myRank, numPEs) ==
    LET numFields == Len(fieldReqs)
        quotient == numFields \div numPEs
        remainder == numFields % numPEs
        myStart == myRank * quotient
        myStop == myStart + quotient
    IN  IF remainder = 0
        THEN [exit |-> FALSE, myStart |-> myStart, myStop |-> myStop,
              myFieldReqs |-> listSlice(fieldReqs, myStart, myStop)]
        ELSE [exit |-> TRUE]

\* The script of the run is kept in the state, written out once.
Ranks == 0..(mpi.numPEs - 1)
Instructions == mpi.program
Applies(myRank, instruction) ==
    instruction.who = "all" \/ myRank = rootID

\* The next instruction of a rank after instruction k: the ones inside
\* if myRank == rootID are skipped by the other ranks.  Every script ends
\* with the loop over the fields, which every rank runs.
NextPc(myRank, k) ==
    Min({j \in (k + 1)..Len(Instructions) : Applies(myRank, Instructions[j])})

\* Faulty variant of the barrier: a rank leaves without waiting.
releasedAtOnce(k) == TRUE

\* myComm.Barrier() at instruction k completes once every rank of the
\* communicator has entered it.
released(k) ==
    \A q \in Ranks :
        \/ mpi.pc[q] > k
        \/ mpi.pc[q] = k /\ mpi.status[q] = "barrier"

\* The scripts of the runs.
Scripts ==
    {Program(app, SubSeq(FieldTags, 1, fields)) :
        app \in Apps, fields \in 0..MaxFields}

Running(myRank) == mpi.status[myRank] = "running"
At(myRank, op) == Running(myRank) /\ Instructions[mpi.pc[myRank]].op = op
Advance(myRank) == NextPc(myRank, mpi.pc[myRank])

\* Ways a process ends with an uncaught exception (exit status 1), and
\* the states in which a process is still part of the run.
Exceptions == {"NameError", "OSError", "IOError"}
Alive == {"running", "barrier"}

InitMpi ==
    /\ parent = Region(ScenarioHeader, ScenarioMask)
    /\ sub = NoCall
    /\ regions = NoRegions
    /\ report = NoReport
    /\ grid = NoGrid
    /\ tdpdf = NoRun
    /\ kld = NoKld
    /\ season = NoSeason
    /\ \E app \in Apps, numPEs \in 1..MaxPEs, fields \in 0..MaxFields,
          root \in RootStates, program \in Scripts :
          /\ program = Program(app, SubSeq(FieldTags, 1, fields))
          /\ mpi = [app |-> app, numPEs |-> numPEs,
                 fieldReqs |-> SubSeq(FieldTags, 1, fields),
                 program |-> program,
                 fs |-> [root |-> root, dirs |-> {}],
                 pc |-> [r \in 0..(numPEs - 1) |->
                            Min({j \in 1..Len(program) :
                                   Applies(r, program[j])})],
                 status |-> [r \in 0..(numPEs - 1) |-> "running"],
                 myStart |-> [r \in 0..(numPEs - 1) |-> 0],
                 myStop |-> [r \in 0..(numPEs - 1) |-> 0],
                 myFieldReqs |-> [r \in 0..(numPEs - 1) |-> <<>>],
                 plotted |-> [r \in 0..(numPEs - 1) |-> 0],
                 images |-> {}]

\* if myRank == rootID: dt.safeMakeDir(...)
SafeMakeDir(myRank) ==
    /\ At(myRank, "safeMakeDir")
    /\ LET made == safeMakeDir(mpi.fs, Instructions[mpi.pc[myRank]].dir)
       IN  mpi' = IF made.raised
                  THEN [mpi EXCEPT !.status[myRank] = "OSError"]
                  ELSE [mpi EXCEPT !.fs = made.fs,
                                   !.pc[myRank] = Advance(myRank)]
    /\ UNCHANGED <<parent, sub, regions, report, grid, tdpdf, kld, season>>

\* if dt.isWriteableDirectory(...): ... else: the script ends.
RequireWriteable(myRank) ==
    /\ At(myRank, "isWriteableDirectory")
    /\ LET instruction == Instructions[mpi.pc[myRank]]
       IN  mpi' = IF isWriteableDirectory(mpi.fs, instruction.dir)
                  THEN [mpi EXCEPT !.pc[myRank] = Advance(myRank)]
                  ELSE [mpi EXCEPT !.status[myRank] = instruction.fail]
    /\ UNCHANGED <<parent, sub, regions, report, grid, tdpdf, kld, season>>

\* myComm.Barrier(): the rank enters and waits.
EnterBarrier(myRank) ==
    /\ At(myRank, "Barrier")
    /\ mpi' = [mpi EXCEPT !.status[myRank] = "barrier"]
    /\ UNCHANGED <<parent, sub, regions, report, grid, tdpdf, kld, season>>

\* myComm.Barrier() returns.
LeaveBarrier(myRank) ==
    /\ mpi.status[myRank] = "barrier"
    /\ released(mpi.pc[myRank])
    /\ mpi' = [mpi EXCEPT !.status[myRank] = "running",
                          !.pc[myRank] = Advance(myRank)]
    /\ UNCHANGED <<parent, sub, regions, report, grid, tdpdf, kld, season>>

\* The domain decomposition.
Decompose(myRank) ==
    /\ At(myRank, "decompose")
    /\ LET mine == myFieldReqs(mpi.fieldReqs, myRank, mpi.numPEs)
       IN  mpi' = IF mine.exit
                  THEN [mpi EXCEPT !.status[myRank] = "SystemExit"]
                  ELSE [mpi EXCEPT !.myStart[myRank] = mine.myStart,
                                   !.myStop[myRank] = mine.myStop,
                                   !.myFieldReqs[myRank] = mine.myFieldReqs,
                                   !.pc[myRank] = Advance(myRank)]
    /\ UNCHANGED <<parent, sub, regions, report, grid, tdpdf, kld, season>>

\* One iteration of for field in myFieldReqs: the images of the field are
\* saved (plt.savefig, which raises IOError where the directory is
\* missing) or, in the movie app, ffmpeg is started on its movie file
\* (subprocess.Popen does not wait and does not raise when ffmpeg
\* fails).
PlotField(myRank) ==
    /\ At(myRank, "for field in myFieldReqs")
    /\ mpi.plotted[myRank] < Len(mpi.myFieldReqs[myRank])
    /\ LET field == mpi.myFieldReqs[myRank][mpi.plotted[myRank] + 1]
           dirs == ImageDirs(mpi.app, field)
           saved == {[rank |-> myRank, field |-> field, dir |-> d] :
                        d \in {e \in dirs : isdir(mpi.fs, e)}}
       IN  mpi' = IF mpi.app # "parOzNationalMovies"
                     /\ \E d \in dirs : ~isdir(mpi.fs, d)
                  THEN [mpi EXCEPT !.status[myRank] = "IOError"]
                  ELSE [mpi EXCEPT !.images = @ \cup saved,
                                   !.plotted[myRank] = @ + 1]
    /\ UNCHANGED <<parent, sub, regions, report, grid, tdpdf, kld, season>>

\* The loop over the fields is over and the script ends.
EndOfScript(myRank) ==
    /\ At(myRank, "for field in myFieldReqs")
    /\ mpi.plotted[myRank] = Len(mpi.myFieldReqs[myRank])
    /\ mpi' = [mpi EXCEPT !.status[myRank] = "done"]
    /\ UNCHANGED <<parent, sub, regions, report, grid, tdpdf, kld, season>>

\* What the scripts leave to the MPI launcher: after a process has ended
\* with an uncaught exception the launcher may end the processes that are
\* left, or may not (mpi4py finalises MPI at exit; no script calls
\* Abort).
LauncherKillsJob ==
    /\ mpi.app # "none"
    /\ \E r \in Ranks : mpi.status[r] \in Exceptions
    /\ \E r \in Ranks : mpi.status[r] \in Alive
    /\ mpi' = [mpi EXCEPT !.status =
                  [r \in Ranks |-> IF mpi.status[r] \in Alive THEN "killed"
                                   ELSE mpi.status[r]]]
    /\ UNCHANGED <<parent, sub, regions, report, grid, tdpdf, kld, season>>

RankStep(myRank) ==
    \/ SafeMakeDir(myRank)
    \/ RequireWriteable(myRank)
    \/ EnterBarrier(myRank)
    \/ LeaveBarrier(myRank)
    \/ Decompose(myRank)
    \/ PlotField(myRank)
    \/ EndOfScript(myRank)

NextMpi ==
    \/ \E myRank \in Ranks : SafeMakeDir(myRank)
    \/ \E myRank \in Ranks : RequireWriteable(myRank)
    \/ \E myRank \in Ranks : EnterBarrier(myRank)
    \/ \E myRank \in Ranks : LeaveBarrier(myRank)
    \/ \E myRank \in Ranks : Decompose(myRank)
    \/ \E myRank \in Ranks : PlotField(myRank)
    \/ \E myRank \in Ranks : EndOfScript(myRank)
    \/ LauncherKillsJob

SpecMpi == InitMpi /\ [][NextMpi]_vars

\* Every process runs on its own processing element and keeps taking
\* steps; nothing obliges the launcher to end a job.
SpecMpiFair ==
    /\ InitMpi
    /\ [][NextMpi]_vars
    /\ \A myRank \in 0..(MaxPEs - 1) :
          WF_vars(myRank \in Ranks /\ RankStep(myRank))

\* Vocabulary.
InFieldLoop(myRank) ==
    Instructions[mpi.pc[myRank]].op = "for field in myFieldReqs"
Positions(myRank) == mpi.myStart[myRank]..(mpi.myStop[myRank] - 1)
numFields == Len(mpi.fieldReqs)
LastMakeDir ==
    Max({j \in 1..Len(Instructions) : Instructions[j].op = "safeMakeDir"})
InBarrier(myRank) == myRank \in Ranks /\ mpi.status[myRank] = "barrier"

C28_WitnessExit ==
    /\ mpi.app # "none" /\ mpi.numPEs = 3 /\ numFields = 4
    /\ \A r \in Ranks : mpi.status[r] = "SystemExit"

\* C29: no rank saves an image into an output directory before the root
\* has finished creating the directories: when any rank is in its loop
\* over the fields, the root is past its last directory creation (every
\* creation on the root precedes a barrier that every rank has passed),
\* and every image saved lies in a directory that exists.
C29_DirectoriesMadeBeforeImagesSaved ==
    (mpi.app # "none") =>
        /\ \A r \in Ranks :
              InFieldLoop(r) => mpi.pc[rootID] > LastMakeDir
        /\ \A im \in mpi.images : isdir(mpi.fs, im.dir)

\* A rank other than the root has saved an image into a directory the
\* root made, in each of the two plotting apps.
C29_Witness ==
    /\ mpi.app = "parOzFieldPlots"
    /\ \E im \in mpi.images : im.rank # rootID /\ im.dir \in mpi.fs.dirs

C29_WitnessRegion ==
    /\ mpi.app = "parRegionFieldPlots"
    /\ \E im \in mpi.images : im.rank # rootID /\ im.dir \in mpi.fs.dirs

\* C30: every rank that enters a barrier is eventually released from it;
\* in no run does a rank end before a barrier while the others wait in it
\* for ever.
C30_EveryBarrierIsLeft ==
    \A myRank \in 0..(MaxPEs - 1) :
        InBarrier(myRank) ~> ~InBarrier(myRank)

\* The barriers of the runs in which no rank ends early are left.
C30_BarrierIsLeftUnlessARankEnded ==
    \A myRank \in 0..(MaxPEs - 1) :
        InBarrier(myRank) ~>
            (~InBarrier(myRank)
                \/ \E q \in Ranks : mpi.status[q] \in Exceptions
                                                       \cup {"SystemExit"})

\* A rank waits in a barrier that the root, ended by an exception, will
\* never enter.
C30_RankWaitsForEndedRoot ==
    /\ mpi.app # "none"
    /\ mpi.status[rootID] \in Exceptions
    /\ \E r \in Ranks : mpi.status[r] = "barrier"
                            /\ mpi.pc[r] > mpi.pc[rootID]

====
